---------------------------- MODULE Spec2Model ----------------------------
(***************************************************************************)
(* A model of the GlueousReader document viewer:                           *)
(*   - FileState / Favorite (src/plugins/Tab/FileState.py), the persisted  *)
(*     per-document view record and its JSON form;                         *)
(*   - Tab and TabPlugin (src/plugins/Tab/Tab.py) with the plugins that    *)
(*     drive a tab (Open, Close, PageUp, PageDown, ZoomIn, ZoomOut, Zoom); *)
(*   - PDFViewer (src/schedule/pdf_viewer_example.py), the debounced,      *)
(*     region-clipped renderer.                                            *)
(*                                                                         *)
(* Numbers.  zoom is a Python float; it is kept here in units of 1/10000   *)
(* (1.0 is 10000, 0.0833 is 833).  The members of scroll_pos and           *)
(* window_pos are the only values FileState.from_json converts (float(),   *)
(* int()); they are typed numbers [t, v]: an int n is [t |-> "int",        *)
(* v |-> n], a float is [t |-> "float", v |-> tenths].  A Python tuple or  *)
(* list is [kind, items].                                                  *)
(***************************************************************************)
EXTENDS Integers, Sequences, FiniteSets, TLC

VARIABLES
    rec,          \* the heap of state dicts: rec[id] is one dict object
    file_states,  \* data["file_states"]: the list of dict objects (ids)
    tab,          \* the Tab objects of this process, by creation order
    tabs,         \* context.tabs: the list of Tab objects (ids into tab)
    handles,      \* the Tab objects whose fitz document is open (not closed)
    err,          \* the exception that escaped the last handler, or "none"
    rt,           \* a FileState object, its to_json() dict and the from_json() of that
    pv,           \* the PDFViewer window of schedule/pdf_viewer_example.py
    tv,           \* the canvas of one Tab with an open document
    rd,           \* the Reader process and its data file (config/data.json)
    bg,           \* the worker threads of the AI summary and OCR plugins, and the UI thread beside them
    zm,           \* the zoom of the current tab under the zoom plugins
    pm,           \* the PluginManager and the plugins it calls
    oq,           \* the OCR queue under add_to_ocr_queue alone
    pt,           \* the current tab's page number, the page label and the page buttons
    ow            \* the OCR worker thread beside toggle_auto_ocr and add_to_ocr_queue

vars == <<rec, file_states, tab, tabs, handles, err, rt, pv, tv, rd, bg, zm, pm, oq, pt, ow>>

\* the variables of the reader's tabs, and the others
readerVars == <<rec, file_states, tab, tabs, handles, err>>

\* what each part of the model leaves alone
notReader == <<rt, pv, tv, rd, bg, zm, pm, oq, pt, ow>>

notRt == <<readerVars, pv, tv, rd, bg, zm, pm, oq, pt, ow>>

notPv == <<readerVars, rt, tv, rd, bg, zm, pm, oq, pt, ow>>

notTv == <<readerVars, rt, pv, rd, bg, zm, pm, oq, pt, ow>>

notRd == <<readerVars, rt, pv, tv, bg, zm, pm, oq, pt, ow>>

notBg == <<readerVars, rt, pv, tv, rd, zm, pm, oq, pt, ow>>

notZm == <<readerVars, rt, pv, tv, rd, bg, pm, oq, pt, ow>>

notPm == <<readerVars, rt, pv, tv, rd, bg, zm, oq, pt, ow>>

notOq == <<readerVars, rt, pv, tv, rd, bg, zm, pm, pt, ow>>

notPt == <<readerVars, rt, pv, tv, rd, bg, zm, pm, oq, ow>>

notOw == <<readerVars, rt, pv, tv, rd, bg, zm, pm, oq, pt>>

Absent == [phase |-> "absent"]

-----------------------------------------------------------------------------
(* Python values *)

PyInt(n) == [t |-> "int", v |-> n]

PyFloat(tenths) == [t |-> "float", v |-> tenths]

PyTuple(items) == [kind |-> "tuple", items |-> items]

PyList(items) == [kind |-> "list", items |-> items]

\* list(x): a new list with the items of a tuple or list
ToList(x) == [kind |-> "list", items |-> x.items]

\* the value of a typed number, in tenths
Tenths(x) == IF x.t = "int" THEN 10 * x.v ELSE x.v

\* float(x)
ToFloat(x) == [t |-> "float", v |-> Tenths(x)]

\* int(x): truncation toward zero
ToInt(x) ==
    IF x.t = "int" THEN x
    ELSE [t |-> "int", v |-> IF x.v >= 0 THEN x.v \div 10 ELSE -((-x.v) \div 10)]

-----------------------------------------------------------------------------
(* FileState.py *)

DISPLAY_MODES == <<"single page", "continuous", "facing", "book view">>

ROTATIONS == <<0, 90, 180, 270>>

\* Favorite.__init__
Favorite(page_no, name) == [page_no |-> page_no, name |-> name]

\* Favorite.to_json
FavoriteToJson(fav) == [name |-> fav.name, page_no |-> fav.page_no]

\* Favorite.from_json reading page_no only
FavoriteFromJsonNameless(json_obj) ==
    IF "page_no" \notin DOMAIN json_obj
    THEN "ValueError"
    ELSE Favorite(json_obj.page_no, "")

\* Favorite.from_json; the ValueError of a missing page_no is the string "ValueError"
FavoriteFromJson(json_obj) ==
    IF "page_no" \notin DOMAIN json_obj
    THEN "ValueError"
    ELSE Favorite(json_obj.page_no,
                  IF "name" \in DOMAIN json_obj THEN json_obj.name ELSE "")

\* FileState.__init__(file_path)
FileStateInit(file_path) ==
    [ file_path         |-> file_path,
      favorites         |-> <<>>,
      is_pinned         |-> FALSE,
      is_missing        |-> FALSE,
      open_count        |-> 0,
      use_default_state |-> FALSE,
      display_mode      |-> "continuous",
      scroll_pos        |-> PyTuple(<<PyFloat(0), PyFloat(0)>>),
      page_no           |-> 1,
      zoom              |-> 10000,
      rotation          |-> 0,
      window_state      |-> 0,
      window_pos        |-> PyTuple(<<PyInt(0), PyInt(0), PyInt(0), PyInt(0)>>),
      show_toc          |-> FALSE,
      sidebar_dx        |-> 572,
      display_r2l       |-> FALSE,
      reparse_idx       |-> 0 ]

\* FileState.to_json
ToJson(self) ==
    [ file_path         |-> self.file_path,
      favorites         |-> [i \in 1..Len(self.favorites) |-> FavoriteToJson(self.favorites[i])],
      is_pinned         |-> self.is_pinned,
      is_missing        |-> self.is_missing,
      open_count        |-> self.open_count,
      use_default_state |-> self.use_default_state,
      display_mode      |-> self.display_mode,
      scroll_pos        |-> ToList(self.scroll_pos),
      page_no           |-> self.page_no,
      zoom              |-> self.zoom,
      rotation          |-> self.rotation,
      window_state      |-> self.window_state,
      window_pos        |-> ToList(self.window_pos),
      show_toc          |-> self.show_toc,
      sidebar_dx        |-> self.sidebar_dx,
      display_r2l       |-> self.display_r2l,
      reparse_idx       |-> self.reparse_idx ]

\* json_obj.get(key, default)
Get(json_obj, key, default) ==
    IF key \in DOMAIN json_obj THEN json_obj[key] ELSE default

\* FileState.from_json; a ValueError (missing file_path, a favorite without
\* page_no) is the string "ValueError"
FromJson(json_obj) ==
    IF "file_path" \notin DOMAIN json_obj THEN "ValueError"
    ELSE
    LET instance   == FileStateInit(json_obj.file_path)
        scroll_pos == Get(json_obj, "scroll_pos", PyList(<<PyFloat(0), PyFloat(0)>>))
        window_pos == Get(json_obj, "window_pos", PyList(<<PyInt(0), PyInt(0), PyInt(0), PyInt(0)>>))
        favs       == Get(json_obj, "favorites", <<>>)
    IN  IF \E i \in 1..Len(favs) : "page_no" \notin DOMAIN favs[i]
        THEN "ValueError"
        ELSE
        [ instance EXCEPT
            !.is_pinned         = Get(json_obj, "is_pinned", FALSE),
            !.is_missing        = Get(json_obj, "is_missing", FALSE),
            !.open_count        = Get(json_obj, "open_count", 0),
            !.use_default_state = Get(json_obj, "use_default_state", FALSE),
            !.display_mode      = Get(json_obj, "display_mode", "continuous"),
            !.page_no           = Get(json_obj, "page_no", 1),
            !.zoom              = Get(json_obj, "zoom", 10000),
            !.rotation          = Get(json_obj, "rotation", 0),
            !.window_state      = Get(json_obj, "window_state", 0),
            !.show_toc          = Get(json_obj, "show_toc", FALSE),
            !.sidebar_dx        = Get(json_obj, "sidebar_dx", 572),
            !.display_r2l       = Get(json_obj, "display_r2l", FALSE),
            !.reparse_idx       = Get(json_obj, "reparse_idx", 0),
            !.scroll_pos        = PyTuple(<<ToFloat(scroll_pos.items[1]),
                                            ToFloat(scroll_pos.items[2])>>),
            !.window_pos        = PyTuple(<<ToInt(window_pos.items[1]), ToInt(window_pos.items[2]),
                                            ToInt(window_pos.items[3]), ToInt(window_pos.items[4])>>),
            !.favorites         = [i \in 1..Len(favs) |-> FavoriteFromJson(favs[i])] ]

-----------------------------------------------------------------------------
(* The environment: the files on disk and the settings *)

\* "a" is a five-page document, "b" a one-page document, "x" a file that
\* exists and that fitz.open() refuses
Paths == {"a", "b", "x"}

\* fitz.open(path) succeeds
Openable(path) == path \in {"a", "b"}

\* len(fitz.open(path))
PageCount(path) == CASE path = "a" -> 5 [] path = "b" -> 1 [] OTHER -> 0

\* SETTINGS["zoom_levels"], in units of 1/10000
zoom_levels ==
    << 833, 1250, 1800, 2500, 3333, 5000, 6667, 7500, 10000, 12500, 15000,
       20000, 30000, 40000, 60000, 80000, 100000, 120000, 160000, 200000,
       240000, 320000, 480000, 640000 >>

\* zoom * 1.1 and zoom / 1.1, rounded to the nearest unit as a float
\* operation rounds to the nearest float
Times11(z) == (z * 11 + 5) \div 10

Over11(z) == (z * 10 + 5) \div 11

-----------------------------------------------------------------------------
(* Bounds of the model *)

\* the Tab objects created
MaxTabs == 2

\* the zoom handlers (ZoomIn, ZoomOut, Ctrl+wheel) are followed this many
\* steps away from the default zoom
MaxZoomSteps == 1

-----------------------------------------------------------------------------
(* Tab.py: the Tab object *)

\* self.state = None (Tab.reset_tab); record ids start at 1
NoState == 0

\* self.doc = None
NoDoc == "None"

TabIds == 1..Len(tab)

\* Tab.total_pages
total_pages(t) == IF tab[t].doc # NoDoc THEN PageCount(tab[t].doc) ELSE 0

\* the test of the page_no setter with the upper bound off by one
PageNoInRangeInclusive(t, page_no) == 0 <= page_no /\ page_no <= total_pages(t)

\* the test of the Tab.page_no setter
PageNoInRange(t, page_no) == 0 <= page_no /\ page_no < total_pages(t)

\* the test of the Tab.zoom setter
ZoomIsPositive(zoom_level) == ~(zoom_level <= 0)

\* the test of the Tab.rotation setter
RotationAllowed(angle) == \E i \in 1..Len(ROTATIONS) : ROTATIONS[i] = angle

\* Tab.update_view_region raises: through Tab.page, or dividing by a
\* canvas_width of page width * zoom = 0
UpdateViewRegionRaises(doc, r) ==
    \/ ~(0 <= r.page_no /\ r.page_no < PageCount(doc))
    \/ r.zoom = 0

\* file_state["file_path"] == file_path on a dict that has the key
Matches(file_state, path) ==
    "file_path" \in DOMAIN file_state /\ file_state.file_path = path

\* the search of file_states raises KeyError: it reaches a dict without
\* file_path before a dict whose file_path is path
LookupRaises(heap, states, path) ==
    \E i \in 1..Len(states) :
        /\ "file_path" \notin DOMAIN heap[states[i]]
        /\ \A j \in 1..(i - 1) : ~Matches(heap[states[j]], path)

\* the index in file_states of the first dict whose file_path is path, 0 if none
Lookup(heap, states, path) ==
    IF \E i \in 1..Len(states) : Matches(heap[states[i]], path)
    THEN CHOOSE i \in 1..Len(states) :
            /\ Matches(heap[states[i]], path)
            /\ \A j \in 1..(i - 1) : ~Matches(heap[states[j]], path)
    ELSE 0

\* Tab.open() without the refresh that reads Tab.page
OpenSucceedsUnrefreshed(heap, state, path) == Openable(path)

\* Tab.open() on a Tab whose state is the dict `state`: TRUE when no
\* exception is raised inside the try block
OpenSucceeds(heap, state, path) ==
    /\ Openable(path)
    /\ ~UpdateViewRegionRaises(path, heap[state])

\* the list without the item t (list.remove)
Remove(seq, t) == SelectSeq(seq, LAMBDA u : u # t)

InTabs(t) == \E i \in 1..Len(tabs) : tabs[i] = t

-----------------------------------------------------------------------------
(* The handlers *)

\* Tab.__init__ without the search: a new dict is inserted for every Tab
TabInitInserting(heap, states, path) ==
    [heap |-> Append(heap, ToJson(FileStateInit(path))),
     states |-> <<Len(heap) + 1>> \o states, state |-> Len(heap) + 1]

\* Tab.__init__ keeping a copy of the dict it found
TabInitCopying(heap, states, path) ==
    LET found == Lookup(heap, states, path)
    IN  IF found # 0
        THEN [heap |-> Append(heap, heap[states[found]]), states |-> states,
              state |-> Len(heap) + 1]
        ELSE [heap |-> Append(heap, ToJson(FileStateInit(path))),
              states |-> <<Len(heap) + 1>> \o states, state |-> Len(heap) + 1]

\* Tab.__init__ appending the new dict instead of inserting it at index 0
TabInitAppending(heap, states, path) ==
    LET found == Lookup(heap, states, path)
    IN  IF found # 0
        THEN [heap |-> heap, states |-> states, state |-> states[found]]
        ELSE [heap |-> Append(heap, ToJson(FileStateInit(path))),
              states |-> Append(states, Len(heap) + 1), state |-> Len(heap) + 1]

\* Tab.__init__, the search of file_states: self.state is the dict found,
\* or a new dict FileState(file_path).to_json() inserted at index 0
TabInit(heap, states, path) ==
    LET found == Lookup(heap, states, path)
    IN  IF found # 0
        THEN [heap |-> heap, states |-> states, state |-> states[found]]
        ELSE [heap |-> Append(heap, ToJson(FileStateInit(path))),
              states |-> <<Len(heap) + 1>> \o states, state |-> Len(heap) + 1]

\* TabPlugin.create_tab with a Tab.open that counts the open before it tries
\* it
CreateTabCountingFirst(path) ==
    /\ Len(tab) < MaxTabs
    /\ IF LookupRaises(rec, file_states, path)
       THEN /\ err' = "KeyError"
            /\ UNCHANGED <<rec, file_states, tab, tabs, handles>>
       ELSE
       LET init == TabInit(rec, file_states, path)
           t    == Len(tab) + 1
       IN  /\ file_states' = init.states
           /\ tabs' = Append(tabs, t)
           /\ rec' = [init.heap EXCEPT ![init.state].open_count = @ + 1]
           /\ IF OpenSucceeds(init.heap, init.state, path)
              THEN /\ tab' = Append(tab, [state |-> init.state, doc |-> path])
                   /\ handles' = handles \cup {t}
                   /\ err' = "none"
              ELSE /\ tab' = Append(tab, [state |-> NoState, doc |-> NoDoc])
                   /\ handles' = handles
                   /\ err' = "TypeError"

\* OpenPlugin.run with the chosen file: TabPlugin.create_tab, that is
\* Tab.__init__ (TabInit, then Tab.open), then update_page_number and
\* update_page_turning_button.  A failed open ends in Tab.reset_tab;
\* update_page_turning_button then reads page_no of a Tab whose state is None.
\* A KeyError in the search of Tab.__init__ leaves create_tab before the Tab
\* is appended to tabs.
CreateTab(path) ==
    /\ Len(tab) < MaxTabs
    /\ IF LookupRaises(rec, file_states, path)
       THEN /\ err' = "KeyError"
            /\ UNCHANGED <<rec, file_states, tab, tabs, handles>>
       ELSE
       LET init == TabInit(rec, file_states, path)
           t    == Len(tab) + 1
       IN  /\ file_states' = init.states
           /\ tabs' = Append(tabs, t)
           /\ IF OpenSucceeds(init.heap, init.state, path)
              THEN /\ rec' = [init.heap EXCEPT ![init.state].open_count = @ + 1]
                   /\ tab' = Append(tab, [state |-> init.state, doc |-> path])
                   /\ handles' = handles \cup {t}
                   /\ err' = "none"
              ELSE /\ rec' = init.heap
                   /\ tab' = Append(tab, [state |-> NoState, doc |-> NoDoc])
                   /\ handles' = handles
                   /\ err' = "TypeError"

\* close_tab with a reset_tab that also deletes the dict from file_states
CloseTabDroppingState(t) ==
    /\ InTabs(t)
    /\ tabs' = Remove(tabs, t)
    /\ tab' = [tab EXCEPT ![t] = [state |-> NoState, doc |-> NoDoc]]
    /\ handles' = IF tab[t].doc # NoDoc THEN handles \ {t} ELSE handles
    /\ err' = "none"
    /\ file_states' = Remove(file_states, tab[t].state)
    /\ rec' = rec

\* ClosePlugin.run on the tab t: TabPlugin.close_tab, that is tabs.remove,
\* Tab.reset_tab (close the document, state = None, doc = None) and
\* notebook.forget
CloseTab(t) ==
    /\ InTabs(t)
    /\ tabs' = Remove(tabs, t)
    /\ tab' = [tab EXCEPT ![t] = [state |-> NoState, doc |-> NoDoc]]
    /\ handles' = IF tab[t].doc # NoDoc THEN handles \ {t} ELSE handles
    /\ err' = "none"
    /\ UNCHANGED <<rec, file_states>>

\* the assignment tab.page_no = page_no (the Tab.page_no setter, then
\* update_view_region and render)
SetPageNo(t, page_no) ==
    /\ InTabs(t)
    /\ IF ~PageNoInRange(t, page_no)
       THEN /\ err' = "ValueError page_no"
            /\ rec' = rec
       ELSE /\ rec' = [rec EXCEPT ![tab[t].state].page_no = page_no]
            /\ err' = IF UpdateViewRegionRaises(tab[t].doc, rec'[tab[t].state])
                      THEN "ValueError" ELSE "none"
    /\ UNCHANGED <<file_states, tab, tabs, handles>>

\* the assignment tab.zoom = zoom_level
SetZoom(t, zoom_level) ==
    /\ InTabs(t)
    /\ IF ~ZoomIsPositive(zoom_level)
       THEN /\ err' = "ValueError zoom"
            /\ rec' = rec
       ELSE IF tab[t].state = NoState
       THEN /\ err' = "TypeError"
            /\ rec' = rec
       ELSE /\ rec' = [rec EXCEPT ![tab[t].state].zoom = zoom_level]
            /\ err' = IF UpdateViewRegionRaises(tab[t].doc, rec'[tab[t].state])
                      THEN "ValueError" ELSE "none"
    /\ UNCHANGED <<file_states, tab, tabs, handles>>

\* the assignment tab.rotation = angle
SetRotation(t, angle) ==
    /\ InTabs(t)
    /\ IF ~RotationAllowed(angle)
       THEN /\ err' = "ValueError rotation"
            /\ rec' = rec
       ELSE IF tab[t].state = NoState
       THEN /\ err' = "TypeError"
            /\ rec' = rec
       ELSE /\ rec' = [rec EXCEPT ![tab[t].state].rotation = angle]
            /\ err' = IF UpdateViewRegionRaises(tab[t].doc, rec'[tab[t].state])
                      THEN "ValueError" ELSE "none"
    /\ UNCHANGED <<file_states, tab, tabs, handles>>

\* PageDownPlugin.run with t the current tab: page_no += 1 below the last
\* page, then show_page(), which Tab does not define
PageDown(t) ==
    /\ InTabs(t)
    /\ IF tab[t].state = NoState
       THEN /\ err' = "TypeError"
            /\ rec' = rec
       ELSE IF rec[tab[t].state].page_no < total_pages(t) - 1
       THEN IF ~PageNoInRange(t, rec[tab[t].state].page_no + 1)
            THEN /\ err' = "ValueError page_no"
                 /\ rec' = rec
            ELSE /\ rec' = [rec EXCEPT ![tab[t].state].page_no = @ + 1]
                 /\ err' = "AttributeError"
       ELSE /\ err' = "none"
            /\ rec' = rec
    /\ UNCHANGED <<file_states, tab, tabs, handles>>

\* PageUpPlugin.run with t the current tab: page_no -= 1 above the first
\* page, then render_page(), which Tab does not define
PageUp(t) ==
    /\ InTabs(t)
    /\ IF tab[t].state = NoState
       THEN /\ err' = "TypeError"
            /\ rec' = rec
       ELSE IF rec[tab[t].state].page_no > 0
       THEN IF ~PageNoInRange(t, rec[tab[t].state].page_no - 1)
            THEN /\ err' = "ValueError page_no"
                 /\ rec' = rec
            ELSE /\ rec' = [rec EXCEPT ![tab[t].state].page_no = @ - 1]
                 /\ err' = "AttributeError"
       ELSE /\ err' = "none"
            /\ rec' = rec
    /\ UNCHANGED <<file_states, tab, tabs, handles>>

\* the loop of ZoomInPlugin.run: the first level above current_zoom, the
\* last level if there is none
NextZoomIn(current_zoom) ==
    IF \E i \in 1..Len(zoom_levels) : zoom_levels[i] > current_zoom
    THEN zoom_levels[CHOOSE i \in 1..Len(zoom_levels) :
            /\ zoom_levels[i] > current_zoom
            /\ \A j \in 1..(i - 1) : ~(zoom_levels[j] > current_zoom)]
    ELSE zoom_levels[Len(zoom_levels)]

\* the loop of ZoomOutPlugin.run: the last level below current_zoom, the
\* first level if there is none
NextZoomOut(current_zoom) ==
    IF \E i \in 1..Len(zoom_levels) : zoom_levels[i] < current_zoom
    THEN zoom_levels[CHOOSE i \in 1..Len(zoom_levels) :
            /\ zoom_levels[i] < current_zoom
            /\ \A j \in (i + 1)..Len(zoom_levels) : ~(zoom_levels[j] < current_zoom)]
    ELSE zoom_levels[1]

RECURSIVE ZoomReach(_)
ZoomReach(n) ==
    IF n = 0 THEN {FileStateInit("").zoom}
    ELSE LET S == ZoomReach(n - 1)
         IN  S \cup {NextZoomIn(z) : z \in S} \cup {NextZoomOut(z) : z \in S}
               \cup {Times11(z) : z \in S} \cup {Over11(z) : z \in S}

\* the zoom values a zoom handler may produce in the model
ZoomRange == ZoomReach(MaxZoomSteps)

\* a handler that reads tab.zoom and assigns tab.zoom = new_zoom
ZoomBy(t, new_zoom) ==
    /\ InTabs(t)
    /\ tab[t].state # NoState => new_zoom \in ZoomRange
    /\ IF tab[t].state = NoState
       THEN /\ err' = "TypeError"
            /\ rec' = rec
       ELSE IF ~ZoomIsPositive(new_zoom)
       THEN /\ err' = "ValueError zoom"
            /\ rec' = rec
       ELSE /\ rec' = [rec EXCEPT ![tab[t].state].zoom = new_zoom]
            /\ err' = IF UpdateViewRegionRaises(tab[t].doc, rec'[tab[t].state])
                      THEN "ValueError" ELSE "none"
    /\ UNCHANGED <<file_states, tab, tabs, handles>>

\* the zoom a handler reads on the tab t (any value when the state is None:
\* the read raises first)
ZoomOf(t) == IF tab[t].state = NoState THEN 0 ELSE rec[tab[t].state].zoom

\* ZoomInPlugin.run with t the current tab
ZoomIn(t) == ZoomBy(t, NextZoomIn(ZoomOf(t)))

\* ZoomOutPlugin.run with t the current tab
ZoomOut(t) == ZoomBy(t, NextZoomOut(ZoomOf(t)))

\* ZoomPlugin._on_mousewheel_linux_up (and the Windows handler, delta > 0)
WheelUp(t) == ZoomBy(t, Times11(ZoomOf(t)))

\* ZoomPlugin._on_mousewheel_linux_down (and the Windows handler, delta < 0)
WheelDown(t) == ZoomBy(t, Over11(ZoomOf(t)))

-----------------------------------------------------------------------------
(* The tabs of the reader *)

\* the values the plugin-facing setters are called with
PageNoInputs == {-1, 4, 5}

ZoomInputs == {-10000, 0, 20000}

RotationInputs == {0, 90, 45}

\* data["file_states"] as Reader.__init__ loads it: nothing (no data.json
\* yet), or what an earlier process wrote after "a" was opened, turned to
\* its last page and zoomed in, and "x" was tried before that
PersistedFileStates ==
    { <<>>,
      << [ToJson(FileStateInit("a")) EXCEPT !.open_count = 1, !.page_no = 4, !.zoom = 12500],
         ToJson(FileStateInit("x")) >> }

Init ==
    /\ rec \in PersistedFileStates
    /\ file_states = [i \in 1..Len(rec) |-> i]
    /\ tab = <<>>
    /\ tabs = <<>>
    /\ handles = {}
    /\ err = "none"
    /\ rt = Absent
    /\ pv = Absent
    /\ tv = Absent
    /\ rd = Absent
    /\ bg = Absent
    /\ zm = Absent
    /\ pm = Absent
    /\ oq = Absent
    /\ pt = Absent
    /\ ow = Absent

Next ==
    \/ \E path \in Paths : CreateTab(path) /\ UNCHANGED notReader
    \/ \E t \in TabIds : CloseTab(t) /\ UNCHANGED notReader
    \/ \E t \in TabIds : \E v \in PageNoInputs : SetPageNo(t, v) /\ UNCHANGED notReader
    \/ \E t \in TabIds : \E v \in ZoomInputs : SetZoom(t, v) /\ UNCHANGED notReader
    \/ \E t \in TabIds : \E v \in RotationInputs : SetRotation(t, v) /\ UNCHANGED notReader
    \/ \E t \in TabIds : PageDown(t) /\ UNCHANGED notReader
    \/ \E t \in TabIds : PageUp(t) /\ UNCHANGED notReader
    \/ \E t \in TabIds : ZoomIn(t) /\ UNCHANGED notReader
    \/ \E t \in TabIds : ZoomOut(t) /\ UNCHANGED notReader
    \/ \E t \in TabIds : WheelUp(t) /\ UNCHANGED notReader
    \/ \E t \in TabIds : WheelDown(t) /\ UNCHANGED notReader

Spec == Init /\ [][Next]_vars

-----------------------------------------------------------------------------
(* Validation of the view state *)

\* the tab t shows a document
IsOpen(t) == tab[t].doc # NoDoc

\* the state dict of the tab t
StateOf(t) == rec[tab[t].state]

\* C1: on a tab with an open document, assigning a page_no outside
\* [0, total_pages), a zoom <= 0 or a rotation other than 0, 90, 180, 270
\* raises ValueError and leaves every state dict as it was; assigning a
\* page_no inside the range (4 on the five-page document) stores it.
C1_SettersReject ==
    [][ \A t \in TabIds : IsOpen(t) =>
          /\ \A v \in PageNoInputs : SetPageNo(t, v) =>
                IF v < 0 \/ v >= PageCount(tab[t].doc)
                THEN err' = "ValueError page_no" /\ rec' = rec
                ELSE err' = "none" /\ rec' = [rec EXCEPT ![tab[t].state].page_no = v]
          /\ \A v \in ZoomInputs : SetZoom(t, v) =>
                IF v <= 0
                THEN err' = "ValueError zoom" /\ rec' = rec
                ELSE err' = "none" /\ rec' = [rec EXCEPT ![tab[t].state].zoom = v]
          /\ \A v \in RotationInputs : SetRotation(t, v) =>
                IF v \notin {0, 90, 180, 270}
                THEN err' = "ValueError rotation" /\ rec' = rec
                ELSE err' = "none" /\ rec' = [rec EXCEPT ![tab[t].state].rotation = v]
      ]_vars

\* every listed tab shows the five-page document, its page_no is 4, and the
\* last handler was rejected by the page_no setter (page_no = 5 or -1)
C1_Witness ==
    /\ tabs # <<>>
    /\ \A i \in 1..Len(tabs) :
          tab[tabs[i]].doc = "a" /\ StateOf(tabs[i]).page_no = 4
    /\ err = "ValueError page_no"

\* C2: whenever a tab shows a document, its state dict has
\* 0 <= page_no < total_pages and zoom > 0.
C2_PageAndZoomInRange ==
    \A t \in TabIds : IsOpen(t) =>
        /\ tab[t].state # NoState
        /\ 0 <= StateOf(t).page_no
        /\ StateOf(t).page_no < PageCount(tab[t].doc)
        /\ StateOf(t).zoom > 0

\* a document opened again from its persisted dict (open_count 2), turned
\* back to its first page and zoomed with Ctrl+wheel
C2_Witness ==
    \E t \in TabIds :
        /\ IsOpen(t)
        /\ StateOf(t).open_count >= 2
        /\ StateOf(t).page_no = 0
        /\ StateOf(t).zoom = Times11(FileStateInit("").zoom)

-----------------------------------------------------------------------------
(* Identity of the persisted state dicts *)

\* the dict object id is an item of the list states
Holds(states, id) == \E i \in 1..Len(states) : states[i] = id

\* some dict of file_states has this file_path
Known(path) == \E i \in 1..Len(file_states) : Matches(rec[file_states[i]], path)

\* C6: when a path is opened while a tab already shows it, the new tab's
\* state is the very dict object the first tab holds, that dict is an item of
\* file_states, and its open_count is one more than before the second open;
\* in every state two tabs that show the same path hold the same dict.
C6_SameStateObject ==
    [][ /\ \A path \in Paths : \A u \in TabIds :
             (CreateTab(path) /\ tab[u].doc = path /\ tab'[Len(tab) + 1].doc = path) =>
                 /\ tab'[Len(tab) + 1].state = tab[u].state
                 /\ tab'[u].state = tab[u].state
                 /\ Holds(file_states', tab[u].state)
                 /\ rec'[tab[u].state].open_count = rec[tab[u].state].open_count + 1
        /\ \A t \in 1..Len(tab') : \A u \in 1..Len(tab') :
             (tab'[t].doc # NoDoc /\ tab'[t].doc = tab'[u].doc) =>
                 /\ tab'[t].state = tab'[u].state
                 /\ Holds(file_states', tab'[t].state)
                 /\ rec'[tab'[t].state].file_path = tab'[t].doc
      ]_vars

\* two listed tabs show the same document through one dict, opened twice in
\* this process and changed (first page, rotated) through one of them
C6_Witness ==
    /\ Len(tabs) = 2
    /\ tab[1].doc = "a" /\ tab[2].doc = "a"
    /\ tab[1].state = tab[2].state
    /\ StateOf(1).open_count >= 2
    /\ StateOf(2).page_no = 0 /\ StateOf(2).rotation = 90

\* C9: creating a tab for a path with no dict in file_states inserts one new
\* default dict at index 0 and leaves the other items in their order; for a
\* path that has a dict, file_states and the set of dicts stay as they were
\* and the tab (when it opens) holds the dict that was found.
C9_FindOrCreate ==
    [][ \A path \in Paths : CreateTab(path) =>
          LET new == Len(tab) + 1
          IN  IF ~Known(path)
              THEN /\ Len(rec') = Len(rec) + 1
                   /\ file_states' = <<Len(rec) + 1>> \o file_states
                   /\ \A id \in 1..Len(rec) : rec'[id] = rec[id]
                   /\ [rec'[Len(rec) + 1] EXCEPT !.open_count = 0]
                        = ToJson(FileStateInit(path))
                   /\ tab'[new].state \in {NoState, Len(rec) + 1}
              ELSE /\ file_states' = file_states
                   /\ Len(rec') = Len(rec)
                   /\ tab'[new].state \in {NoState, file_states[Lookup(rec, file_states, path)]}
                   /\ \A id \in 1..Len(rec) :
                         [rec'[id] EXCEPT !.open_count = 0] = [rec[id] EXCEPT !.open_count = 0]
      ]_vars

\* a dict for "b" was inserted in front of the two persisted dicts, and a
\* tab opened on "a" holds the persisted dict that was found
C9_Witness ==
    /\ file_states = <<3, 1, 2>>
    /\ rec[3].file_path = "b"
    /\ \E t \in TabIds : tab[t].doc = "a" /\ tab[t].state = 1

\* C10: closing a tab closes its document, takes the tab off the tab list
\* and leaves file_states and every dict as they were; no step removes an
\* item of file_states.
C10_CloseKeepsState ==
    [][ /\ \A t \in TabIds : CloseTab(t) =>
             /\ t \notin handles'
             /\ tab'[t].doc = NoDoc
             /\ \A i \in 1..Len(tabs') : tabs'[i] # t
             /\ file_states' = file_states
             /\ rec' = rec
        /\ \A i \in 1..Len(file_states) : Holds(file_states', file_states[i])
      ]_vars

\* every tab was closed, no document is open, and the dict of the document
\* that was shown keeps its open count, its page and its zoom
C10_Witness ==
    /\ Len(tab) >= 1 /\ tabs = <<>> /\ handles = {}
    /\ \E i \in 1..Len(file_states) :
          /\ rec[file_states[i]].file_path = "a"
          /\ rec[file_states[i]].open_count >= 1
          /\ rec[file_states[i]].page_no = 0
          /\ rec[file_states[i]].zoom = Times11(FileStateInit("").zoom)

-----------------------------------------------------------------------------
(* FileState objects and their JSON form *)

MaxFavorites == 2

\* the favorites a user adds
FavoriteInputs == {Favorite(1, "ch1"), Favorite(3, "")}

\* from_json raises ValueError
FromJsonRaises(json_obj) ==
    \/ "file_path" \notin DOMAIN json_obj
    \/ /\ "favorites" \in DOMAIN json_obj
       /\ \E i \in 1..Len(json_obj.favorites) : "page_no" \notin DOMAIN json_obj.favorites[i]

\* FileState(file_path)
JsonInit ==
    /\ rt \in {[phase |-> "object", x |-> FileStateInit(path)] : path \in {"a"}}
    /\ rec = <<>>
    /\ file_states = <<>>
    /\ tab = <<>>
    /\ tabs = <<>>
    /\ handles = {}
    /\ err = "none"
    /\ pv = Absent
    /\ tv = Absent
    /\ rd = Absent
    /\ bg = Absent
    /\ zm = Absent
    /\ pm = Absent
    /\ oq = Absent
    /\ pt = Absent
    /\ ow = Absent

\* an assignment to an attribute of the FileState object
Assign ==
    /\ rt.phase = "object"
    /\ \/ \E v \in {0, 4} : rt' = [rt EXCEPT !.x.page_no = v]
       \/ \E v \in {12500} : rt' = [rt EXCEPT !.x.zoom = v]
       \/ \E v \in {90} : rt' = [rt EXCEPT !.x.rotation = v]
       \/ \E v \in {"single page"} : rt' = [rt EXCEPT !.x.display_mode = v]
       \/ \E v \in {TRUE} : rt' = [rt EXCEPT !.x.is_pinned = v]
       \/ \E v \in {3} : rt' = [rt EXCEPT !.x.open_count = v]
       \/ \E v \in {PyTuple(<<PyFloat(15), PyFloat(2005)>>), PyTuple(<<PyInt(3), PyInt(4)>>)} :
             rt' = [rt EXCEPT !.x.scroll_pos = v]
       \/ \E v \in {PyTuple(<<PyInt(10), PyInt(20), PyInt(800), PyInt(600)>>)} :
             rt' = [rt EXCEPT !.x.window_pos = v]
    /\ UNCHANGED notRt

\* favorites.append(Favorite(page_no, name))
AddFavorite(fav) ==
    /\ rt.phase = "object"
    /\ Len(rt.x.favorites) < MaxFavorites
    /\ rt' = [rt EXCEPT !.x.favorites = Append(@, fav)]
    /\ UNCHANGED notRt

\* json_obj = x.to_json()
Serialize ==
    /\ rt.phase = "object"
    /\ rt' = [phase |-> "json", x |-> rt.x, json |-> ToJson(rt.x)]
    /\ UNCHANGED notRt

\* y = FileState.from_json(json_obj)
Deserialize ==
    /\ rt.phase = "json"
    /\ rt' = [phase |-> "back", x |-> rt.x, json |-> rt.json,
              raised |-> FromJsonRaises(rt.json), y |-> FromJson(rt.json)]
    /\ UNCHANGED notRt

JsonNext ==
    \/ Assign
    \/ \E fav \in FavoriteInputs : AddFavorite(fav)
    \/ Serialize
    \/ Deserialize

SpecJson == JsonInit /\ [][JsonNext]_vars

\* a == b on two tuples (or two lists) of numbers
SeqEq(a, b) ==
    /\ a.kind = b.kind
    /\ Len(a.items) = Len(b.items)
    /\ \A i \in 1..Len(a.items) : Tenths(a.items[i]) = Tenths(b.items[i])

\* every attribute of a equals that attribute of b
FileStateEq(a, b) ==
    /\ \A k \in DOMAIN a \ {"scroll_pos", "window_pos", "favorites"} : a[k] = b[k]
    /\ SeqEq(a.scroll_pos, b.scroll_pos)
    /\ SeqEq(a.window_pos, b.window_pos)
    /\ Len(a.favorites) = Len(b.favorites)
    /\ \A i \in 1..Len(a.favorites) :
          /\ a.favorites[i].page_no = b.favorites[i].page_no
          /\ a.favorites[i].name = b.favorites[i].name

\* C7: from_json(x.to_json()) does not raise and gives an object whose every
\* attribute equals that of x: the scalar fields, scroll_pos and window_pos as
\* tuples of equal numbers, and favorites item by item in order.
C7_RoundTrip ==
    rt.phase = "back" =>
        /\ ~rt.raised
        /\ FileStateEq(rt.y, rt.x)
        /\ DOMAIN rt.y = DOMAIN rt.x

\* a round trip of an object with two favorites in order, a moved window, a
\* scroll position given as ints, and non-default page, zoom and rotation
C7_Witness ==
    /\ rt.phase = "back"
    /\ rt.x.favorites = <<Favorite(3, ""), Favorite(1, "ch1")>>
    /\ rt.x.scroll_pos = PyTuple(<<PyInt(3), PyInt(4)>>)
    /\ rt.x.window_pos.items[3] = PyInt(800)
    /\ rt.x.page_no = 4 /\ rt.x.zoom = 12500 /\ rt.x.rotation = 90
    /\ rt.json.scroll_pos.kind = "list"
    /\ rt.y.scroll_pos = PyTuple(<<PyFloat(30), PyFloat(40)>>)

\* C8: the state dict created by the first open of a path has zoom 1.0,
\* rotation 0, page_no 0, display_mode continuous and scroll_pos (0, 0).
C8_DefaultsOnFirstOpen ==
    [][\A path \in Paths :
          (CreateTab(path) /\ ~Known(path)) =>
              LET d == rec'[file_states'[1]]
              IN  /\ d.zoom = 10000
                  /\ d.rotation = 0
                  /\ d.page_no = 0
                  /\ d.display_mode = "continuous"
                  /\ \A i \in 1..2 : Tenths(d.scroll_pos.items[i]) = 0]_vars

-----------------------------------------------------------------------------
(* schedule/pdf_viewer_example.py: PDFViewer *)
(* Lengths on the canvas are whole pixels.  A fitz.Rect in page coordinates *)
(* is kept exactly: its coordinates are numerators over dpi, so a pixel     *)
(* coordinate p divided by scale = dpi / 72 is the numerator 72 * p.        *)

dpi == 200

PointsPerInch == 72

render_threshold == 15

render_margin == 80

\* page.rect of the page shown: width and height in points
page_rect == <<181, 361>>

\* the sizes the window manager gives the canvas: one narrower and one
\* wider than the rendered page
ViewerWindows == {<<400, 800>>, <<600, 800>>}

Max(a, b) == IF a >= b THEN a ELSE b

Min(a, b) == IF a <= b THEN a ELSE b

Abs(a) == IF a >= 0 THEN a ELSE -a

\* int(page_rect.width * scale), int(page_rect.height * scale)
total_pix_width == (page_rect[1] * dpi) \div PointsPerInch

total_pix_height == (page_rect[2] * dpi) \div PointsPerInch

\* rendered_region = None
NoRect == [x0 |-> -1, y0 |-> -1, x1 |-> -1, y1 |-> -1]

\* Tk keeps the view origin inside the scroll region
Confine(origin, total, window) == Max(0, Min(origin, total - window))

\* Tk's canvas.xview(): (first, last), here multiplied by the region's length
ViewOf(origin, total, window) == <<Min(origin, total), Min(total, origin + window)>>

\* the id Tk gives the next after() call: one that is not in use
NewId(used) ==
    CHOOSE i \in 1..(Cardinality(used) + 1) :
        i \notin used /\ \A j \in 1..(i - 1) : j \in used

\* schedule_render that does not keep the id after() returns
ScheduleRenderForgettingId(self) ==
    [self EXCEPT !.timers = self.timers \cup {NewId(self.timers)}]

\* schedule_render without the after_cancel
ScheduleRenderStacking(self) ==
    LET id == NewId(self.timers \cup {self.render_after_id})
    IN  [self EXCEPT !.timers = self.timers \cup {id}, !.render_after_id = id]

\* schedule_render
ScheduleRender(self) ==
    LET timers == IF self.render_after_id # 0
                  THEN self.timers \ {self.render_after_id}
                  ELSE self.timers
        id     == NewId(timers \cup {self.render_after_id})
    IN  [self EXCEPT !.timers = timers \cup {id}, !.render_after_id = id]

\* calculate_visible_rect with the margin added and no clamp to the page
CalculateVisibleRectUnclamped(self) ==
    LET xv == ViewOf(self.xo, total_pix_width, self.w)
        yv == ViewOf(self.yo, total_pix_height, self.h)
    IN  [x0 |-> PointsPerInch * (xv[1] - render_margin),
         y0 |-> PointsPerInch * (yv[1] - render_margin),
         x1 |-> PointsPerInch * (xv[2] + render_margin),
         y1 |-> PointsPerInch * (yv[2] + render_margin)]

\* calculate_visible_rect, after its two reads of the view
CalculateVisibleRect(self) ==
    LET xv     == ViewOf(self.xo, total_pix_width, self.w)
        yv     == ViewOf(self.yo, total_pix_height, self.h)
        pix_x1 == Max(0, xv[1] - render_margin)
        pix_y1 == Max(0, yv[1] - render_margin)
        pix_x2 == Min(total_pix_width, xv[2] + render_margin)
        pix_y2 == Min(total_pix_height, yv[2] + render_margin)
    IN  [x0 |-> PointsPerInch * pix_x1, y0 |-> PointsPerInch * pix_y1,
         x1 |-> PointsPerInch * pix_x2, y1 |-> PointsPerInch * pix_y2]

\* is_region_changed answering True always
IsRegionChangedAlways(rendered_region, new_rect) == TRUE

\* is_region_changed: the centres, in pixels, are (x0 + x1) / (2 * 72)
IsRegionChanged(rendered_region, new_rect) ==
    IF rendered_region = NoRect THEN TRUE
    ELSE LET offset_x == Abs((new_rect.x0 + new_rect.x1) - (rendered_region.x0 + rendered_region.x1))
             offset_y == Abs((new_rect.y0 + new_rect.y1) - (rendered_region.y0 + rendered_region.y1))
         IN  \/ offset_x > 2 * PointsPerInch * render_threshold
             \/ offset_y > 2 * PointsPerInch * render_threshold

\* render_visible_area that keeps the region of every pass, skipped ones too
RenderVisibleAreaKeepingRequested(self, ok) ==
    LET read == ScheduleRender(ScheduleRender(self))
        visible_pdf_rect == CalculateVisibleRect(read)
    IN  IF ~IsRegionChanged(read.rendered_region, visible_pdf_rect)
        THEN [read EXCEPT !.rendered_region = visible_pdf_rect, !.raster = "skipped"]
        ELSE IF ok
        THEN [read EXCEPT !.rendered_region = visible_pdf_rect, !.clip = visible_pdf_rect,
                          !.shown = TRUE, !.image = TRUE, !.raster = "drawn"]
        ELSE [read EXCEPT !.rendered_region = visible_pdf_rect, !.clip = visible_pdf_rect,
                          !.shown = FALSE, !.raster = "failed"]

\* render_visible_area; ok is whether get_pixmap and the image conversion
\* return (otherwise an exception leaves the callback at that point, before
\* canvas.delete and create_image)
RenderVisibleArea(self, ok) ==
    LET read == ScheduleRender(ScheduleRender(self))
        visible_pdf_rect == CalculateVisibleRect(read)
    IN  IF ~IsRegionChanged(read.rendered_region, visible_pdf_rect)
        THEN [read EXCEPT !.raster = "skipped"]
        ELSE IF ok
        THEN [read EXCEPT !.rendered_region = visible_pdf_rect, !.clip = visible_pdf_rect,
                          !.shown = TRUE, !.image = TRUE, !.raster = "drawn"]
        ELSE [read EXCEPT !.rendered_region = visible_pdf_rect, !.clip = visible_pdf_rect,
                          !.shown = FALSE, !.raster = "failed"]

\* PDFViewer.__init__ on a canvas of the given size
PDFViewerInit(window) ==
    ScheduleRender(
        [phase |-> "viewer", xo |-> 0, yo |-> 0, w |-> window[1], h |-> window[2],
         rendered_region |-> NoRect, shown |-> TRUE, image |-> FALSE, clip |-> NoRect,
         render_after_id |-> 0, timers |-> {},
         requested |-> TRUE, fresh |-> FALSE, again |-> FALSE, raster |-> "none"])

\* the view after an event, with the marks of what happened since the last pass
Moved(self, xo, yo, w, h) ==
    LET next == [self EXCEPT !.xo = Confine(xo, total_pix_width, w),
                             !.yo = Confine(yo, total_pix_height, h),
                             !.w = w, !.h = h]
    IN  [next EXCEPT !.fresh = self.fresh /\ next = self]

\* a scrollbar is dragged: custom_xview / custom_yview("moveto", f)
ScrollbarMove(axis, origin) ==
    /\ pv.phase = "viewer"
    /\ LET moved == IF axis = "x" THEN Moved(pv, origin, pv.yo, pv.w, pv.h)
                                  ELSE Moved(pv, pv.xo, origin, pv.w, pv.h)
       IN  pv' = [ScheduleRender(moved) EXCEPT !.requested = TRUE]
    /\ UNCHANGED notPv

\* on_mousewheel: canvas.yview_scroll(units, "units"), a unit being a tenth
\* of the window
MouseWheel(units) ==
    /\ pv.phase = "viewer"
    /\ pv' = Moved(pv, pv.xo, pv.yo + units * (pv.h \div 10), pv.w, pv.h)
    /\ UNCHANGED notPv

\* <Configure>: the canvas gets another size
Configure(window) ==
    /\ pv.phase = "viewer"
    /\ <<pv.w, pv.h>> # window
    /\ pv' = [ScheduleRender(Moved(pv, pv.xo, pv.yo, window[1], window[2]))
                EXCEPT !.requested = TRUE]
    /\ UNCHANGED notPv

\* the after() timer id expires and Tk calls render_visible_area
Fire(id, ok) ==
    /\ pv.phase = "viewer"
    /\ id \in pv.timers
    /\ pv' = [RenderVisibleArea([pv EXCEPT !.timers = @ \ {id}], ok)
                EXCEPT !.requested = FALSE, !.fresh = TRUE, !.again = pv.fresh]
    /\ UNCHANGED notPv

-----------------------------------------------------------------------------
(* plugins/Tab/Tab.py: the canvas of a Tab and Tab.render *)
(* The scroll region is the page scaled by zoom, in whole pixels.  The clip *)
(* is kept exactly: x0 and x1 are numerators over the region's width rw,    *)
(* y0 and y1 over its height rh.                                            *)

\* the size of the Tab's canvas on screen
TabWindow == <<200, 150>>

\* the zoom levels the view is given, in 1/10000
TabZooms == {5000, 10000, 20000}

\* canvas_width, canvas_height as Tk takes them for the scroll region
RegionWidth(zoom) == (page_rect[1] * zoom + 5000) \div 10000

RegionHeight(zoom) == (page_rect[2] * zoom + 5000) \div 10000

NoClip == [x0 |-> -1, y0 |-> -1, x1 |-> -1, y1 |-> -1, rw |-> 1, rh |-> 1]

\* visible_page_positions: the view fractions times the page's size
VisiblePageRegion(self) ==
    LET rw == RegionWidth(self.zoom)
        rh == RegionHeight(self.zoom)
        xv == ViewOf(self.xo, rw, TabWindow[1])
        yv == ViewOf(self.yo, rh, TabWindow[2])
    IN  [x0 |-> xv[1] * page_rect[1], y0 |-> yv[1] * page_rect[2],
         x1 |-> xv[2] * page_rect[1], y1 |-> yv[2] * page_rect[2],
         rw |-> rw, rh |-> rh]

\* Tab.dpi: the setting "dpi", 72 by default
TabDpi == 72

\* the pages of the document and the angles the view is turned to
TabPageNos == {0, 1}

TabRotations == {0, 90}

\* no image on the canvas
NoPixmap == [page_no |-> -1, dpi |-> 0, rotation |-> 0]

\* the image render puts on the canvas: page.get_pixmap(clip, dpi =
\* int(self.dpi * self.zoom)) of self.page, through Image.frombytes and
\* convert_color; rotate_image is not called, the image is as get_pixmap
\* gives it
Pixmap(self) ==
    [page_no |-> self.page_no, dpi |-> (TabDpi * self.zoom) \div 10000, rotation |-> 0]

\* Tab.render; ok is whether get_pixmap and the image conversion return
\* (otherwise an exception leaves render at that point, the canvas cleared)
Render(self, ok) ==
    IF ~self.doc
    THEN [self EXCEPT !.raster = "none"]
    ELSE IF ok
    THEN [self EXCEPT !.clip = VisiblePageRegion(self), !.image = TRUE,
                      !.raster = "drawn", !.fresh = TRUE, !.drawn = Pixmap(self)]
    ELSE [self EXCEPT !.clip = VisiblePageRegion(self), !.image = FALSE,
                      !.raster = "failed", !.fresh = TRUE, !.drawn = NoPixmap]

\* a coordinate n / d
Ratio(n, d) == [n |-> n, d |-> d]

\* update_view_attributes: scroll_pos is the page's size times the fractions
\* at which the view starts
ScrollPosOfView(self) ==
    <<Ratio(page_rect[1] * self.xo, RegionWidth(self.zoom)),
      Ratio(page_rect[2] * self.yo, RegionHeight(self.zoom))>>

\* update_view_region: the scroll region is that of the zoom, and the view is
\* moved to the fractions max(scroll_pos / page size, 0)
UpdateViewRegion(self) ==
    LET sx == self.scroll_pos[1]
        sy == self.scroll_pos[2]
        rw == RegionWidth(self.zoom)
        rh == RegionHeight(self.zoom)
    IN  [self EXCEPT
           !.xo = Confine(Max(sx.n * rw, 0) \div (sx.d * page_rect[1]), rw, TabWindow[1]),
           !.yo = Confine(Max(sy.n * rh, 0) \div (sy.d * page_rect[2]), rh, TabWindow[2])]

\* a Tab whose document has just been opened at the given zoom
TabViewInit(zoom) ==
    [phase |-> "tab", doc |-> TRUE, page_no |-> 0, rotation |-> 0, drawn |-> NoPixmap,
     zoom |-> zoom, xo |-> 0, yo |-> 0,
     scroll_pos |-> <<Ratio(0, 1), Ratio(0, 1)>>, cb |-> FALSE,
     clip |-> NoClip, image |-> FALSE, raster |-> "none", fresh |-> FALSE, again |-> FALSE]

\* the canvas view moves (scrollbar, wheel) and Tk calls xscrollcommand or
\* yscrollcommand: scrollbar.set, update_view_attributes, render
TabScroll(axis, origin, ok) ==
    /\ tv.phase = "tab"
    /\ LET xo == IF axis = "x" THEN Confine(origin, RegionWidth(tv.zoom), TabWindow[1]) ELSE tv.xo
           yo == IF axis = "y" THEN Confine(origin, RegionHeight(tv.zoom), TabWindow[2]) ELSE tv.yo
           moved == [tv EXCEPT !.xo = xo, !.yo = yo, !.cb = FALSE,
                               !.fresh = tv.fresh /\ xo = tv.xo /\ yo = tv.yo,
                               !.again = tv.fresh /\ xo = tv.xo /\ yo = tv.yo]
       IN  tv' = Render(IF tv.doc THEN [moved EXCEPT !.scroll_pos = ScrollPosOfView(moved)]
                                  ELSE moved, ok)
    /\ UNCHANGED notTv

\* the zoom setter, then update_view_region (the scroll region is resized
\* and the view moved to the same fractions) and the render of the callback
TabZoom(zoom, ok) ==
    /\ tv.phase = "tab"
    /\ tv.doc
    /\ zoom # tv.zoom
    /\ LET moved == UpdateViewRegion([tv EXCEPT !.zoom = zoom, !.cb = FALSE,
                                                !.fresh = FALSE, !.again = FALSE])
       IN  tv' = Render([moved EXCEPT !.scroll_pos = ScrollPosOfView(moved)], ok)
    /\ UNCHANGED notTv

\* the page_no setter (the number is in range), then update_view_region and
\* render
TabPageNo(page_no, ok) ==
    /\ tv.phase = "tab"
    /\ tv.doc
    /\ page_no # tv.page_no
    /\ tv' = Render(UpdateViewRegion([tv EXCEPT !.page_no = page_no,
                                                !.fresh = FALSE, !.again = FALSE]), ok)
    /\ UNCHANGED notTv

\* the rotation setter (the angle is one of ROTATIONS), then
\* update_view_region and render
TabRotation(angle, ok) ==
    /\ tv.phase = "tab"
    /\ tv.doc
    /\ angle # tv.rotation
    /\ tv' = Render(UpdateViewRegion([tv EXCEPT !.rotation = angle,
                                                !.fresh = FALSE, !.again = FALSE]), ok)
    /\ UNCHANGED notTv

\* the assignment tab.scroll_pos = pos: the dict is written, then
\* update_view_region and render; Tk calls the scroll callback later if the
\* view has moved
TabSetScrollPos(pos, ok) ==
    /\ tv.phase = "tab"
    /\ tv.doc
    /\ LET moved == UpdateViewRegion([tv EXCEPT !.scroll_pos = <<Ratio(pos[1], 1), Ratio(pos[2], 1)>>])
           same  == moved.xo = tv.xo /\ moved.yo = tv.yo
       IN  tv' = Render([moved EXCEPT !.cb = tv.cb \/ ~same,
                                      !.fresh = tv.fresh /\ same,
                                      !.again = tv.fresh /\ same], ok)
    /\ UNCHANGED notTv

\* Tk calls xscrollcommand / yscrollcommand for a view moved by the program:
\* scrollbar.set, update_view_attributes, render
TabViewCallback(ok) ==
    /\ tv.phase = "tab"
    /\ tv.cb
    /\ tv' = Render(IF tv.doc THEN [tv EXCEPT !.cb = FALSE, !.again = tv.fresh,
                                              !.scroll_pos = ScrollPosOfView(tv)]
                               ELSE [tv EXCEPT !.cb = FALSE, !.again = tv.fresh], ok)
    /\ UNCHANGED notTv

\* a direct call of render()
TabRender(ok) ==
    /\ tv.phase = "tab"
    /\ tv' = Render([tv EXCEPT !.again = tv.fresh], ok)
    /\ UNCHANGED notTv

\* reset_tab: the document is closed and the canvas cleared
TabReset ==
    /\ tv.phase = "tab"
    /\ tv.doc
    /\ tv' = [tv EXCEPT !.doc = FALSE, !.image = FALSE, !.fresh = FALSE, !.drawn = NoPixmap]
    /\ UNCHANGED notTv

\* the positions, in page coordinates, that scroll_pos is assigned
ScrollPosInputs == {<<-5, -5>>, <<20, 30>>}

\* the origins a scrollbar is dragged to
OriginInputs == {0, 10, 300}

\* the origins the PDFViewer's scrollbars are dragged to; with the wheel's
\* steps of 80 the view also comes to 42: the centre of the region is at
\* 440, 447.5 and 461 for the origins 0, 15 and 42
ScrollbarInputs == {0, 15, 300}

ViewerInit ==
    /\ \/ /\ pv \in {PDFViewerInit(window) : window \in ViewerWindows}
          /\ tv = Absent
       \/ /\ pv = Absent
          /\ tv \in {TabViewInit(zoom) : zoom \in TabZooms}
    /\ rec = <<>>
    /\ file_states = <<>>
    /\ tab = <<>>
    /\ tabs = <<>>
    /\ handles = {}
    /\ err = "none"
    /\ rt = Absent
    /\ rd = Absent
    /\ bg = Absent
    /\ zm = Absent
    /\ pm = Absent
    /\ oq = Absent
    /\ pt = Absent
    /\ ow = Absent

ViewerNext ==
    \/ \E axis \in {"x", "y"} : \E origin \in ScrollbarInputs : ScrollbarMove(axis, origin)
    \/ \E units \in {-1, 1} : MouseWheel(units)
    \/ \E window \in ViewerWindows : Configure(window)
    \/ \E id \in 1..3 : \E ok \in BOOLEAN : Fire(id, ok)
    \/ \E axis \in {"x", "y"} : \E origin \in OriginInputs : \E ok \in BOOLEAN :
          TabScroll(axis, origin, ok)
    \/ \E zoom \in TabZooms : \E ok \in BOOLEAN : TabZoom(zoom, ok)
    \/ \E pos \in ScrollPosInputs : \E ok \in BOOLEAN : TabSetScrollPos(pos, ok)
    \/ \E page_no \in TabPageNos : \E ok \in BOOLEAN : TabPageNo(page_no, ok)
    \/ \E angle \in TabRotations : \E ok \in BOOLEAN : TabRotation(angle, ok)
    \/ \E ok \in BOOLEAN : TabViewCallback(ok)
    \/ \E ok \in BOOLEAN : TabRender(ok)
    \/ TabReset

SpecViewer == ViewerInit /\ [][ViewerNext]_vars

-----------------------------------------------------------------------------
(* Render passes *)
(* In pv and tv, requested says that an event asked for a render since the  *)
(* last pass, fresh that a pass has run since the view last changed, again  *)
(* that the last pass ran on a view unchanged since the pass before it,     *)
(* raster what the last pass did ("drawn" and "failed" are the two outcomes *)
(* of a get_pixmap call), and image that the canvas holds an image.         *)

\* C3: after a burst of requests one render pass runs: once the pass has run,
\* no other pass runs until an event requests a render again.
C3_OnePassPerBurst ==
    [][\A id \in 1..3 : \A ok \in BOOLEAN : Fire(id, ok) => pv.requested]_vars

C5_ClipWithinPage ==
    /\ (pv.phase = "viewer" /\ pv.clip # NoRect) =>
          /\ 0 <= pv.clip.x0 /\ pv.clip.x0 <= pv.clip.x1
          /\ pv.clip.x1 <= page_rect[1] * dpi
          /\ 0 <= pv.clip.y0 /\ pv.clip.y0 <= pv.clip.y1
          /\ pv.clip.y1 <= page_rect[2] * dpi
    /\ (tv.phase = "tab" /\ tv.clip # NoClip) =>
          /\ 0 <= tv.clip.x0 /\ tv.clip.x0 <= tv.clip.x1
          /\ tv.clip.x1 <= page_rect[1] * tv.clip.rw
          /\ 0 <= tv.clip.y0 /\ tv.clip.y0 <= tv.clip.y1
          /\ tv.clip.y1 <= page_rect[2] * tv.clip.rh

\* the window is wider than the rendered page, the view is scrolled down to
\* the end, and the clip stops at the page's right and bottom edges
C5_Witness ==
    /\ pv.phase = "viewer"
    /\ pv.w > total_pix_width
    /\ pv.raster = "drawn"
    /\ pv.clip.x0 = 0
    /\ pv.clip.x1 = PointsPerInch * total_pix_width
    /\ pv.clip.y0 > 0
    /\ pv.clip.y1 = PointsPerInch * total_pix_height

\* C11: when get_pixmap raises during a render pass, the image that was on
\* the canvas before the pass is still on it afterwards, in Tab.render and in
\* PDFViewer.render_visible_area.
C11_FailureKeepsRaster ==
    [][/\ (TabRender(FALSE) /\ tv.doc /\ tv.image) => tv'.image
       /\ \A id \in 1..3 : (Fire(id, FALSE) /\ pv.image /\ pv'.raster = "failed") => pv'.image]_vars

-----------------------------------------------------------------------------
(* Failures of the backend and of persisted data *)

\* C12: an open that fails leaves the new tab an empty placeholder (no state,
\* no document, no pages) and no exception escapes the handler; and the page
\* turn, zoom and close handlers run on such a tab without raising.
C12_FailedOpenIsHarmless ==
    [][/\ \A path \in Paths :
            (CreateTab(path) /\ tab'[Len(tab')].doc = NoDoc) =>
                /\ tab'[Len(tab')].state = NoState
                /\ err' = "none"
       /\ \A t \in TabIds :
            (/\ tab[t].state = NoState
             /\ PageDown(t) \/ PageUp(t) \/ ZoomIn(t) \/ ZoomOut(t) \/ CloseTab(t)) =>
                err' = "none"]_vars

-----------------------------------------------------------------------------
(* glueous/Reader.py: the data file *)
(* The contents of self.data are a version number: 0 is the empty dict, and *)
(* each change a plugin makes gives the next version.  The file is missing, *)
(* corrupt (not JSON), or the JSON text of a version.                       *)

MaxEdits == 3

MissingFile == [kind |-> "missing", v |-> 0]

CorruptFile == [kind |-> "corrupt", v |-> 0]

JsonFile(v) == [kind |-> "json", v |-> v]

\* the outcomes of dump_data: written; open(..., "w") raises; json.dump
\* raises after open has truncated the file
SaveOutcomes == {"ok", "open", "dump"}

\* Reader.__init__, the load of data.json; readable is whether open() and
\* read() succeed
ReaderInit(file, readable) ==
    LET loaded == file.kind = "json" /\ readable
    IN  [phase |-> "running", file |-> file,
         data |-> IF loaded THEN file.v ELSE 0,
         fallback |-> ~loaded,
         timer |-> TRUE, last |-> "none", failed |-> FALSE]

\* dump_data
DumpData(self, outcome) ==
    CASE outcome = "ok"   -> [self EXCEPT !.file = JsonFile(self.data), !.last = "ok"]
      [] outcome = "open" -> [self EXCEPT !.last = "open", !.failed = TRUE]
      [] outcome = "dump" -> [self EXCEPT !.file = CorruptFile, !.last = "dump", !.failed = TRUE]

\* periodically_execute arming the next run only after a run without error
PeriodicallyExecuteUntilError(self, outcome) ==
    [DumpData(self, outcome) EXCEPT !.timer = (outcome = "ok")]

\* periodically_execute: each function under try/except, then root.after
PeriodicallyExecute(self, outcome) ==
    [DumpData(self, outcome) EXCEPT !.timer = TRUE]

\* the program is started: Reader.__init__ and mainloop, whose first
\* periodically_execute is due at once
Start(readable) ==
    /\ rd.phase = "off"
    /\ rd' = ReaderInit(rd.file, readable)
    /\ UNCHANGED notRd

\* a plugin changes self.data
Edit ==
    /\ rd.phase = "running"
    /\ rd.data < MaxEdits
    /\ rd' = [rd EXCEPT !.data = @ + 1]
    /\ UNCHANGED notRd

\* the periodic run is due
Save(outcome) ==
    /\ rd.phase = "running"
    /\ rd.timer
    /\ rd' = PeriodicallyExecute(rd, outcome)
    /\ UNCHANGED notRd

\* the window is closed and the process ends
Quit ==
    /\ rd.phase = "running"
    /\ rd' = [phase |-> "off", file |-> rd.file]
    /\ UNCHANGED notRd

PersistInit ==
    /\ rd \in {[phase |-> "off", file |-> f] : f \in {MissingFile, CorruptFile, JsonFile(1)}}
    /\ bg = Absent
    /\ zm = Absent
    /\ pm = Absent
    /\ oq = Absent
    /\ pt = Absent
    /\ ow = Absent
    /\ rec = <<>>
    /\ file_states = <<>>
    /\ tab = <<>>
    /\ tabs = <<>>
    /\ handles = {}
    /\ err = "none"
    /\ rt = Absent
    /\ pv = Absent
    /\ tv = Absent

PersistNext ==
    \/ \E readable \in BOOLEAN : Start(readable)
    \/ Edit
    \/ \E outcome \in SaveOutcomes : Save(outcome)
    \/ Quit

SpecPersist == PersistInit /\ [][PersistNext]_vars

\* C13: a start that finds the data file missing, unreadable or not JSON
\* continues with empty data and the periodic save armed; a save that fails is
\* reported, leaves the process running and leaves the next periodic save armed.
C13_PersistenceFailuresTolerated ==
    [][/\ \A readable \in BOOLEAN :
            (Start(readable) /\ (rd.file.kind # "json" \/ ~readable)) =>
                /\ rd'.phase = "running"
                /\ rd'.data = 0
                /\ rd'.timer
       /\ \A outcome \in {"open", "dump"} :
            Save(outcome) =>
                /\ rd'.phase = "running"
                /\ rd'.last = outcome
                /\ rd'.timer]_vars

\* after a start on an unusable file and a failed save, a later periodic
\* save has written the current data
C13_Witness ==
    /\ rd.phase = "running"
    /\ rd.fallback
    /\ rd.failed
    /\ rd.last = "ok"
    /\ rd.data > 0
    /\ rd.file = JsonFile(rd.data)

\* a dict written without one of its keys
DropKey(json_obj, key) == [k \in DOMAIN json_obj \ {key} |-> json_obj[k]]

\* data files in which one record has lost its file_path; the other record
\* is that of "a", intact
CorruptFileStates ==
    LET a   == [ToJson(FileStateInit("a")) EXCEPT !.open_count = 1, !.page_no = 4]
        bad == DropKey(ToJson(FileStateInit("x")), "file_path")
    IN  {<<bad, a>>, <<a, bad>>}

CorruptInit ==
    /\ rec \in CorruptFileStates
    /\ file_states = [i \in 1..Len(rec) |-> i]
    /\ tab = <<>>
    /\ tabs = <<>>
    /\ handles = {}
    /\ err = "none"
    /\ rt = Absent
    /\ pv = Absent
    /\ tv = Absent
    /\ rd = Absent
    /\ bg = Absent
    /\ zm = Absent
    /\ pm = Absent
    /\ oq = Absent
    /\ pt = Absent
    /\ ow = Absent

SpecCorrupt == CorruptInit /\ [][Next]_vars

\* C14: with a record that lacks file_path in file_states, opening a path
\* whose own record is intact, or which has no record, still creates its tab
\* without a KeyError, and every record stays in file_states.
C14_OtherRecordsUsable ==
    [][\A path \in Paths :
          CreateTab(path) =>
              /\ err' # "KeyError"
              /\ Len(tab') = Len(tab) + 1
              /\ \A i \in 1..Len(file_states) : Holds(file_states', file_states[i])]_vars

\* C15: the render requests made while a pass of render_visible_area runs
\* (its reads of the view call schedule_render) do not run a render inside
\* the pass: the pass goes to its end, and when it has returned exactly one
\* timer, the one of the last request, is pending for the next cycle.
C15_RequestInPassDeferred ==
    [][\A id \in 1..3 : \A ok \in BOOLEAN :
          Fire(id, ok) =>
              /\ pv'.raster \in {"drawn", "skipped", "failed"}
              /\ pv'.render_after_id # 0
              /\ pv'.timers = {pv'.render_after_id}]_vars

\* a pass has drawn, no event has asked for a render since, and the cycle
\* armed during the pass is pending
C15_Witness ==
    /\ pv.phase = "viewer"
    /\ pv.raster = "drawn"
    /\ ~pv.requested
    /\ pv.fresh
    /\ pv.timers = {pv.render_after_id}

-----------------------------------------------------------------------------
(* Coordinates: document -> scaled canvas -> viewport, and the callers that *)
(* go back from a viewport point to the document.  Points are pairs of      *)
(* Ratio; self is the Tab's canvas state (zoom in 1/10000, xo and yo the    *)
(* view's origin in pixels of the scaled canvas).                           *)

\* the points of the canvas window an event arrives at (event.x, event.y)
ViewportPoints == {<<0, 0>>, <<60, 40>>, <<199, 149>>}

RECURSIVE GCD(_, _)
GCD(a, b) == IF b = 0 THEN a ELSE GCD(b, a % b)

\* the float zoom as a fraction in lowest terms: ZoomN / ZoomD
ZoomN(zoom) == zoom \div GCD(zoom, 10000)

ZoomD(zoom) == 10000 \div GCD(zoom, 10000)

\* the forward mapping of render: a document point is scaled by zoom
\* (selectable_page_positions: page rect * zoom) and shown at the scaled
\* position less the view's origin
Forward(self, p) ==
    LET zn == ZoomN(self.zoom)
        zd == ZoomD(self.zoom)
    IN  <<Ratio(p[1].n * zn - self.xo * zd * p[1].d, zd * p[1].d),
          Ratio(p[2].n * zn - self.yo * zd * p[2].d, zd * p[2].d)>>

\* Tab.coord2real: canvas_width * xview()[0] + pos[0], the same for y
coord2real(self, pos) ==
    LET zn == ZoomN(self.zoom)
        zd == ZoomD(self.zoom)
        rw == RegionWidth(self.zoom)
        rh == RegionHeight(self.zoom)
    IN  <<Ratio(page_rect[1] * zn * self.xo + pos[1] * zd * rw, zd * rw),
          Ratio(page_rect[2] * zn * self.yo + pos[2] * zd * rh, zd * rh)>>

\* TextSelectionPlugin._extract_text_from_rect, one corner of the rectangle:
\* x / scale + page_rect.width * xview()[0]
ExtractTextFromRect(self, pos) ==
    LET zn == ZoomN(self.zoom)
        zd == ZoomD(self.zoom)
        rw == RegionWidth(self.zoom)
        rh == RegionHeight(self.zoom)
    IN  <<Ratio(pos[1] * zd * rw + page_rect[1] * self.xo * zn, zn * rw),
          Ratio(pos[2] * zd * rh + page_rect[2] * self.yo * zn, zn * rh)>>

\* DragPlugin.get_selected_text, one corner of _drag_selection_rect (the
\* event's x and y as on_mouse_drag stored them): x / zoom
GetSelectedText(self, pos) ==
    <<Ratio(pos[1] * ZoomD(self.zoom), ZoomN(self.zoom)),
      Ratio(pos[2] * ZoomD(self.zoom), ZoomN(self.zoom))>>

\* the point q is less than one pixel away from the viewport point pos
WithinAPixel(q, pos) ==
    /\ Abs(q[1].n - pos[1] * q[1].d) < q[1].d
    /\ Abs(q[2].n - pos[2] * q[2].d) < q[2].d

\* C17: for every zoom and scroll offset, the document point that coord2real,
\* the text-selection extraction and the drag-selection extraction return for
\* a viewport point is mapped forward onto that viewport point (to the pixel).
C17_CallersInvertForward ==
    (tv.phase = "tab" /\ tv.doc) =>
        \A pos \in ViewportPoints :
            /\ WithinAPixel(Forward(tv, coord2real(tv, pos)), pos)
            /\ WithinAPixel(Forward(tv, ExtractTextFromRect(tv, pos)), pos)
            /\ WithinAPixel(Forward(tv, GetSelectedText(tv, pos)), pos)


-----------------------------------------------------------------------------
(* The count of opens *)

\* C18: open_count of every record is >= 0 in every state; a step changes it
\* only by adding one to the record of the path a successful open has opened
\* (a new record counting from 0), so that it is the persisted value plus the
\* number of successful opens; a failed open leaves every open_count unchanged.
C18_OpenCountCountsOpens ==
    /\ [](\A r \in 1..Len(rec) : rec[r].open_count >= 0)
    /\ [][\A r \in 1..Len(rec') :
            LET before == IF r <= Len(rec) THEN rec[r].open_count ELSE 0
                opened == \E path \in Paths :
                              /\ CreateTab(path)
                              /\ Len(tab') = Len(tab) + 1
                              /\ tab'[Len(tab')].doc = path
                              /\ rec'[r].file_path = path
            IN  rec'[r].open_count = before + (IF opened THEN 1 ELSE 0)]_vars

\* "a", persisted with one open, has been opened once more, and an open of
\* another path has failed and left its new record at 0
C18_Witness ==
    /\ Len(tab) = 2
    /\ \E t \in TabIds : tab[t].doc = "a" /\ StateOf(t).open_count = 2
    /\ \E t \in TabIds : tab[t].doc = NoDoc /\ tab[t].state = NoState /\ t \in {tabs[i] : i \in 1..Len(tabs)}
    /\ \E r \in 1..Len(rec) : rec[r].file_path # "a" /\ rec[r].open_count = 0


-----------------------------------------------------------------------------
(* plugins/AI/Summary.py and plugins/OCR/OCRPlugin.py: the worker threads   *)
(* In bg, thread is where the summary thread stands, pending the number of  *)
(* on_complete calls Tk holds for the UI thread, timer the 60 s timeout,    *)
(* dump where the UI thread stands in json.dump (it writes the file chunk   *)
(* by chunk while it iterates the dicts of context.data), and last what the *)
(* last step was: the thread that ran it, the kinds of object it read or    *)
(* wrote, and whether it put the result of a worker into the program's      *)
(* state or onto the screen.                                                *)

\* the pages of the current document
OcrPages == {0, 1}

Step(thread, touched, applies) == [thread |-> thread, touched |-> touched, applies |-> applies]

\* OCRPlugin.add_to_ocr_queue: tasks are <<priority, page_no>>
Without(queue, i) == [j \in 1..(Len(queue) - 1) |-> IF j < i THEN queue[j] ELSE queue[j + 1]]

InsertAt(queue, i, task) ==
    [j \in 1..(Len(queue) + 1) |-> IF j < i THEN queue[j] ELSE IF j = i THEN task ELSE queue[j - 1]]

\* add_to_ocr_queue that inserts the task before the tasks of its own priority
AddToOcrQueueBeforeEquals(queue, page_no, priority) ==
    LET same  == {i \in 1..Len(queue) : queue[i][2] = page_no}
        first == CHOOSE i \in same : \A j \in same : i <= j
    IN  IF same # {} /\ priority >= queue[first][1]
        THEN queue
        ELSE LET kept  == IF same # {} THEN Without(queue, first) ELSE queue
                 lower == {i \in 1..Len(kept) : priority <= kept[i][1]}
             IN  IF lower = {}
                 THEN Append(kept, <<priority, page_no>>)
                 ELSE InsertAt(kept, CHOOSE i \in lower : \A j \in lower : i <= j,
                               <<priority, page_no>>)

\* OCRPlugin.add_to_ocr_queue: a task of the page that is in the queue stays
\* unless the new priority is smaller, then it is popped; the new task is
\* inserted before the first task of a greater priority, or appended
AddToOcrQueue(queue, page_no, priority) ==
    LET same  == {i \in 1..Len(queue) : queue[i][2] = page_no}
        first == CHOOSE i \in same : \A j \in same : i <= j
    IN  IF same # {} /\ priority >= queue[first][1]
        THEN queue
        ELSE LET kept  == IF same # {} THEN Without(queue, first) ELSE queue
                 lower == {i \in 1..Len(kept) : priority < kept[i][1]}
             IN  IF lower = {}
                 THEN Append(kept, <<priority, page_no>>)
                 ELSE InsertAt(kept, CHOOSE i \in lower : \A j \in lower : i <= j,
                               <<priority, page_no>>)

\* what a call of perform_ocr_on_page meets when the page is not cached: the
\* page has images and the engine reads them, the page has no image, or the
\* engine cannot be set up or the document not be read
OcrOutcomes == {"recognized", "no images", "error"}

\* perform_ocr_on_page with the cache test left out
PerformOcrOnPageUncached(self, page_no, outcome) ==
    IF outcome = "error"
    THEN [self EXCEPT !.performed = "error"]
    ELSE [self EXCEPT !.performed = outcome, !.ocr_cache = @ \cup {page_no}]

\* OCRPlugin.perform_ocr_on_page: the cached result is returned if there is
\* one; otherwise the images of the page are given to the engine
\* (ocr_reader.readtext) and the result saved, an empty result is saved for
\* a page without images, and nothing is saved after an error.  performed
\* says which of these the last call did.
PerformOcrOnPage(self, page_no, outcome) ==
    IF page_no \in self.ocr_cache
    THEN [self EXCEPT !.performed = "cached"]
    ELSE IF outcome = "error"
    THEN [self EXCEPT !.performed = "error"]
    ELSE [self EXCEPT !.performed = outcome, !.ocr_cache = @ \cup {page_no}]

\* the plugins loaded, no summary asked for, automatic OCR off
ThreadsInit ==
    [phase |-> "threads", thread |-> "idle", finished |-> FALSE,
     summary_result |-> FALSE, error_result |-> "none", timer |-> FALSE, pending |-> 0,
     progress_window |-> "none", dialog |-> "none",
     auto_ocr_enabled |-> FALSE, ocr_thread |-> FALSE, ocr_queue |-> <<>>, ocr_cache |-> {},
     performed |-> "none",
     dump |-> "idle", keys |-> 0, file |-> "json",
     last |-> Step("ui", {}, FALSE)]

\* the UI thread is between two handlers
UiIdle == bg.phase = "threads" /\ bg.dump = "idle"

\* SummaryPlugin.generate_summary on the UI thread: the text of the tab is
\* read, the progress window shown, the thread started, the timeout armed
GenerateSummary ==
    /\ UiIdle
    /\ bg.thread \in {"idle", "returned"}
    /\ bg.pending = 0
    /\ ~bg.timer
    /\ bg' = [bg EXCEPT !.thread = "running", !.finished = FALSE,
                        !.summary_result = FALSE, !.error_result = "none",
                        !.timer = TRUE, !.progress_window = "shown", !.dialog = "none",
                        !.last = Step("ui", {"ViewState", "widget", "closure"}, FALSE)]
    /\ UNCHANGED notBg

\* call_api on the summary thread: call_ai_api (it reads the configuration
\* in context.data) returns or raises, then root.after(0, on_complete)
CallApi(returns) ==
    /\ bg.phase = "threads"
    /\ bg.thread = "running"
    /\ bg' = [bg EXCEPT !.thread = "returned", !.finished = TRUE,
                        !.summary_result = returns,
                        !.error_result = IF returns THEN @ ELSE "error",
                        !.pending = @ + 1,
                        !.last = Step("summary", {"data", "closure", "after"}, FALSE)]
    /\ UNCHANGED notBg

\* timeout_check, 60 s after generate_summary, on the UI thread
TimeoutCheck ==
    /\ UiIdle
    /\ bg.timer
    /\ bg' = IF bg.finished
             THEN [bg EXCEPT !.timer = FALSE, !.last = Step("ui", {"closure"}, FALSE)]
             ELSE [bg EXCEPT !.timer = FALSE, !.finished = TRUE,
                             !.error_result = "timeout", !.pending = @ + 1,
                             !.last = Step("ui", {"closure", "after"}, FALSE)]
    /\ UNCHANGED notBg

\* on_complete, called by Tk on the UI thread: the progress window is
\* destroyed and the result or the error shown
OnComplete ==
    /\ UiIdle
    /\ bg.pending > 0
    /\ bg' = [bg EXCEPT !.pending = @ - 1, !.progress_window = "destroyed",
                        !.dialog = IF bg.error_result # "none" \/ ~bg.summary_result
                                   THEN "error" ELSE "summary",
                        !.last = Step("ui", {"widget", "closure"}, TRUE)]
    /\ UNCHANGED notBg

\* toggle_auto_ocr on the UI thread: start_ocr_thread and
\* trigger_visible_pages_ocr for the tab's page, or stop_ocr_worker
ToggleAutoOcr(page_no) ==
    /\ UiIdle
    /\ bg' = IF bg.auto_ocr_enabled
             THEN [bg EXCEPT !.auto_ocr_enabled = FALSE, !.ocr_thread = FALSE,
                             !.last = Step("ui", {}, FALSE)]
             ELSE [bg EXCEPT !.auto_ocr_enabled = TRUE, !.ocr_thread = TRUE,
                             !.ocr_queue = AddToOcrQueue(@, page_no, 0),
                             !.last = Step("ui", {"ViewState", "queue"}, FALSE)]
    /\ UNCHANGED notBg

\* modified_get_text on the UI thread: a page without a cached result is
\* queued when automatic OCR is on
GetText(page_no) ==
    /\ UiIdle
    /\ bg' = [bg EXCEPT !.ocr_queue = IF page_no \notin bg.ocr_cache /\ bg.auto_ocr_enabled
                                      THEN AddToOcrQueue(@, page_no, 1) ELSE @,
                        !.last = Step("ui", {"data", "queue"}, FALSE)]
    /\ UNCHANGED notBg

\* reocr_current_page on the UI thread: the cached result is deleted and
\* perform_ocr_on_page called in the handler
ReOcrCurrentPage(page_no, outcome) ==
    /\ UiIdle
    /\ LET deleted == [bg EXCEPT !.ocr_cache = @ \ {page_no}]
       IN  bg' = [PerformOcrOnPage(deleted, page_no, outcome)
                    EXCEPT !.last = Step("ui", {"ViewState", "data", "widget"}, TRUE)]
    /\ UNCHANGED notBg

\* one turn of the loop of ocr_worker on the OCR thread: a task is popped
\* and perform_ocr_on_page called, which returns the cached result or
\* recognizes the page of a document it opens itself and calls
\* save_ocr_result: context.data["ocr_cache"][key] = result
OcrWorker(outcome) ==
    /\ bg.phase = "threads"
    /\ bg.ocr_thread
    /\ bg.ocr_queue # <<>>
    /\ LET page_no == Head(bg.ocr_queue)[2]
           done    == PerformOcrOnPage([bg EXCEPT !.ocr_queue = Tail(@)], page_no, outcome)
       IN  bg' = [done EXCEPT !.last = Step("ocr", {"queue", "data"},
                                            done.ocr_cache # bg.ocr_cache)]
    /\ UNCHANGED notBg

\* Reader.dump_data on the UI thread, from periodically_execute: the file is
\* opened for writing and json.dump starts to iterate context.data
DumpBegin ==
    /\ UiIdle
    /\ bg' = [bg EXCEPT !.dump = "iterating", !.keys = Cardinality(bg.ocr_cache),
                        !.file = "truncated", !.last = Step("ui", {"data"}, FALSE)]
    /\ UNCHANGED notBg

\* json.dump comes to its end, or, when a dict it iterates has got another
\* key meanwhile, may raise RuntimeError (dictionary changed size during
\* iteration), which dump_data catches with the file half written
DumpEnd(raises) ==
    /\ bg.phase = "threads"
    /\ bg.dump = "iterating"
    /\ raises => Cardinality(bg.ocr_cache) # bg.keys
    /\ bg' = [bg EXCEPT !.dump = "idle", !.file = IF raises THEN "truncated" ELSE "json",
                        !.last = Step("ui", {"data"}, FALSE)]
    /\ UNCHANGED notBg

ThreadsSpecInit ==
    /\ bg = ThreadsInit
    /\ zm = Absent
    /\ pm = Absent
    /\ oq = Absent
    /\ pt = Absent
    /\ ow = Absent
    /\ rec = <<>>
    /\ file_states = <<>>
    /\ tab = <<>>
    /\ tabs = <<>>
    /\ handles = {}
    /\ err = "none"
    /\ rt = Absent
    /\ pv = Absent
    /\ tv = Absent
    /\ rd = Absent

ThreadsNext ==
    \/ GenerateSummary
    \/ \E returns \in BOOLEAN : CallApi(returns)
    \/ TimeoutCheck
    \/ OnComplete
    \/ \E page_no \in OcrPages : ToggleAutoOcr(page_no)
    \/ \E page_no \in OcrPages : GetText(page_no)
    \/ \E page_no \in OcrPages : \E outcome \in OcrOutcomes : ReOcrCurrentPage(page_no, outcome)
    \/ \E outcome \in OcrOutcomes : OcrWorker(outcome)
    \/ DumpBegin
    \/ \E raises \in BOOLEAN : DumpEnd(raises)

SpecThreads == ThreadsSpecInit /\ [][ThreadsNext]_vars

\* C19: no step of the summary thread or of the OCR thread reads or writes
\* the ViewState, the raster or a widget, and every step that puts a worker's
\* result into the program's state or onto the screen runs on the UI thread.
C19_ResultsAppliedOnUiThread ==
    bg.phase = "threads" =>
        /\ bg.last.thread # "ui" => bg.last.touched \cap {"ViewState", "raster", "widget"} = {}
        /\ bg.last.applies => bg.last.thread = "ui"


-----------------------------------------------------------------------------
(* The raster and the view state *)

\* C20: the image a render pass of the Tab has put on the canvas is of the
\* page page_no, at the scale zoom (dpi * zoom dots per inch) and turned by
\* rotation, whatever setter ran before the pass.
C20_RasterReflectsViewState ==
    (tv.phase = "tab" /\ tv.doc /\ tv.raster = "drawn" /\ tv.image) =>
        /\ tv.drawn.page_no = tv.page_no
        /\ tv.drawn.dpi * 10000 = TabDpi * tv.zoom
        /\ tv.drawn.rotation = tv.rotation


-----------------------------------------------------------------------------
(* plugins/Tab/Zoom: the zoom of the current tab under ZoomIn, ZoomOut and  *)
(* Ctrl+wheel.  In zm, zoom is tab.zoom in 1/10000, before the zoom the     *)
(* last handler read, op that handler and wheel the number of wheel events. *)

\* the number of Ctrl+wheel events followed
MaxWheelSteps == 2

\* the current tab after open: the zoom is the default or a preset level
\* that an earlier ZoomIn / ZoomOut has left in the persisted state
ZoomInit(zoom) == [phase |-> "zoom", zoom |-> zoom, before |-> zoom, op |-> "none", wheel |-> 0]

\* current_tab.zoom = new_zoom: the setter raises ValueError for a value
\* <= 0 and the state keeps its zoom
AssignZoom(self, op, new_zoom) ==
    [self EXCEPT !.zoom = IF ZoomIsPositive(new_zoom) THEN new_zoom ELSE @,
                 !.before = self.zoom, !.op = op]

\* ZoomInPlugin.run
ZoomInRun ==
    /\ zm.phase = "zoom"
    /\ zm' = AssignZoom(zm, "ZoomIn", NextZoomIn(zm.zoom))
    /\ UNCHANGED notZm

\* ZoomOutPlugin.run
ZoomOutRun ==
    /\ zm.phase = "zoom"
    /\ zm' = AssignZoom(zm, "ZoomOut", NextZoomOut(zm.zoom))
    /\ UNCHANGED notZm

\* ZoomPlugin._on_mousewheel_linux_up: current_tab.zoom *= 1.1
OnMousewheelUp ==
    /\ zm.phase = "zoom"
    /\ zm.wheel < MaxWheelSteps
    /\ zm' = [AssignZoom(zm, "WheelUp", Times11(zm.zoom)) EXCEPT !.wheel = @ + 1]
    /\ UNCHANGED notZm

\* ZoomPlugin._on_mousewheel_linux_down: current_tab.zoom /= 1.1
OnMousewheelDown ==
    /\ zm.phase = "zoom"
    /\ zm.wheel < MaxWheelSteps
    /\ zm' = [AssignZoom(zm, "WheelDown", Over11(zm.zoom)) EXCEPT !.wheel = @ + 1]
    /\ UNCHANGED notZm

ZoomSpecInit ==
    /\ zm \in {ZoomInit(zoom_levels[i]) : i \in 1..Len(zoom_levels)}
    /\ rec = <<>>
    /\ file_states = <<>>
    /\ tab = <<>>
    /\ tabs = <<>>
    /\ handles = {}
    /\ err = "none"
    /\ rt = Absent
    /\ pv = Absent
    /\ tv = Absent
    /\ rd = Absent
    /\ bg = Absent
    /\ pm = Absent
    /\ oq = Absent
    /\ pt = Absent
    /\ ow = Absent

ZoomNext ==
    \/ ZoomInRun
    \/ ZoomOutRun
    \/ OnMousewheelUp
    \/ OnMousewheelDown

SpecZoom == ZoomSpecInit /\ [][ZoomNext]_vars

\* C21: ZoomInPlugin.run never leaves the zoom smaller than it was and
\* ZoomOutPlugin.run never larger, for every zoom the presets and Ctrl+wheel
\* produce; from a preset level that is not the last (first) one, ZoomIn
\* (ZoomOut) moves to the next (previous) preset level.
C21_ZoomInEnlargesZoomOutShrinks ==
    [][/\ ZoomInRun =>
            /\ zm'.zoom >= zm.zoom
            /\ \A i \in 1..(Len(zoom_levels) - 1) :
                  zm.zoom = zoom_levels[i] => zm'.zoom = zoom_levels[i + 1]
       /\ ZoomOutRun =>
            /\ zm'.zoom <= zm.zoom
            /\ \A i \in 2..Len(zoom_levels) :
                  zm.zoom = zoom_levels[i] => zm'.zoom = zoom_levels[i - 1]]_vars


-----------------------------------------------------------------------------
(* glueous/PluginManager.py: the calls of loaded, run and unloaded *)
(* In pm, plugins is the list of plugin objects, name_mapping and           *)
(* hotkey_mapping give the index of the object a name or a hotkey stands    *)
(* for, pc is where the manager is, plugin_names what loaded() has still to *)
(* call, i the index unloaded() is at, calls the calls of loaded and         *)
(* unloaded made so far with their outcome, ran the last call of run, and   *)
(* escaped whether an exception has left a method of the manager.           *)

\* plugins/__init__.py
plugin_loading_order ==
    << "ContextMenuPlugin", "TabPlugin", "OpenPlugin", "ClosePlugin",
       "PageUpPlugin", "PageNoPlugin", "PageDownPlugin",
       "ZoomPlugin", "ZoomOutPlugin", "ZoomInPlugin",
       "ScrollPlugin", "HorizontalScrollPlugin", "VerticalScrollUpPlugin",
       "HorizontalScrollLeftPlugin", "HorizontalScrollRightPlugin",
       "SelectPlugin", "DragPlugin", "CopyPlugin", "TranslatePlugin",
       "SearchPlugin", "HighLightPlugin",
       "OCRPlugin", "OCRDebugPlugin", "AIConfigurePlugin", "SummaryPlugin" >>

\* the plugin classes found in the plugin directory of the model; two files
\* may define a class of the same name (Tab/File/Open.py and File/Open.py)
PluginClasses == {"TabPlugin", "OpenPlugin", "MindMapPlugin", "ShowPageInfoPlugin"}

\* the number of plugin objects the directory gives
MaxPlugins == 3

\* the files that define a class of the name: OpenPlugin is defined in
\* plugins/Tab/File/Open.py and in plugins/File/Open.py
PluginFiles(name) ==
    IF name = "OpenPlugin" THEN {"Tab/File/Open.py", "File/Open.py"} ELSE {"the file"}

\* Plugin.hotkeys of a plugin object: the list its class defines, [] by
\* default (File/Open.py defines `hotkey`, not `hotkeys`)
hotkeys(plugin) ==
    CASE plugin.name = "OpenPlugin" /\ plugin.file = "Tab/File/Open.py" -> {"<Control-o>"}
      [] plugin.name = "ShowPageInfoPlugin" -> {"<Control-i>"}
      [] OTHER -> {}

Hotkeys == {"<Control-o>", "<Control-i>", "<Control-w>"}

\* the name is in plugin_loading_order
Listed(name) == \E k \in 1..Len(plugin_loading_order) : plugin_loading_order[k] = name

\* the position of a listed name
OrderOf(name) == CHOOSE k \in 1..Len(plugin_loading_order) : plugin_loading_order[k] = name

\* PluginManager.append for every object: a later object of the same name
\* or hotkey replaces the earlier one in the mappings
NameMapping(plugins) ==
    [name \in {plugins[k].name : k \in 1..Len(plugins)} |->
        CHOOSE k \in 1..Len(plugins) :
            /\ plugins[k].name = name
            /\ \A j \in (k + 1)..Len(plugins) : plugins[j].name # name]

HotkeyMapping(plugins) ==
    [hotkey \in UNION {hotkeys(plugins[k]) : k \in 1..Len(plugins)} |->
        CHOOSE k \in 1..Len(plugins) :
            /\ hotkey \in hotkeys(plugins[k])
            /\ \A j \in (k + 1)..Len(plugins) : hotkey \notin hotkeys(plugins[j])]

\* no call of run yet, or the hotkey's plugin is disabled
NoCall == [plugin |-> 0, method |-> "none", raised |-> FALSE, reported |-> FALSE]

\* PluginManager after load_plugins_from_directory
PluginManagerInit(plugins) ==
    [phase |-> "pm", plugins |-> plugins, name_mapping |-> NameMapping(plugins),
     hotkey_mapping |-> HotkeyMapping(plugins), pc |-> "constructed",
     plugin_names |-> {}, i |-> 0, calls |-> <<>>, ran |-> NoCall, escaped |-> FALSE]

\* _call_plugin without the try statement: the exception leaves the manager
CallPluginUnguarded(self, k, method_name, raises) ==
    IF raises
    THEN [self EXCEPT !.calls = Append(@, [plugin |-> k, method |-> method_name,
                                           raised |-> TRUE, reported |-> FALSE]),
                      !.escaped = TRUE, !.pc = "aborted"]
    ELSE [self EXCEPT !.calls = Append(@, [plugin |-> k, method |-> method_name,
                                           raised |-> FALSE, reported |-> FALSE])]

\* _call_plugin: the method is called, an Exception is caught and printed
CallPlugin(self, k, method_name, raises) ==
    [self EXCEPT !.calls = Append(@, [plugin |-> k, method |-> method_name,
                                      raised |-> raises, reported |-> raises])]

\* if plugin.able: self._call_plugin(plugin, method_name)
CallIfAble(self, k, method_name, raises) ==
    IF self.plugins[k].able THEN CallPlugin(self, k, method_name, raises) ELSE self

\* a loop over the installed names that takes them in no particular order
NextListedAny(plugin_names) ==
    LET listed == {name \in plugin_names : Listed(name)}
    IN  CHOOSE name \in listed : \A other \in listed : OrderOf(other) <= OrderOf(name)

\* the first loop of loaded(): the next name of plugin_loading_order that is
\* in plugin_names
NextListed(plugin_names) ==
    LET listed == {name \in plugin_names : Listed(name)}
    IN  CHOOSE name \in listed : \A other \in listed : OrderOf(name) <= OrderOf(other)

\* PluginManager.loaded is entered
LoadedBegin ==
    /\ pm.phase = "pm"
    /\ pm.pc = "constructed"
    /\ pm' = [pm EXCEPT !.pc = "ordered", !.plugin_names = DOMAIN pm.name_mapping]
    /\ UNCHANGED notPm

\* one turn of the first loop of loaded() that finds its name installed;
\* the loop ends when no listed name is left
LoadedOrdered(raises) ==
    /\ pm.phase = "pm"
    /\ pm.pc = "ordered"
    /\ IF \E name \in pm.plugin_names : Listed(name)
       THEN LET name == NextListed(pm.plugin_names)
            IN  pm' = [CallIfAble(pm, pm.name_mapping[name], "loaded", raises)
                         EXCEPT !.plugin_names = @ \ {name}]
       ELSE /\ ~raises
            /\ pm' = [pm EXCEPT !.pc = "rest"]
    /\ UNCHANGED notPm

\* one turn of the second loop of loaded(), over the set of the names left;
\* loaded() returns when the set is exhausted
LoadedRest(name, raises) ==
    /\ pm.phase = "pm"
    /\ pm.pc = "rest"
    /\ IF pm.plugin_names # {}
       THEN /\ name \in pm.plugin_names
            /\ pm' = [CallIfAble(pm, pm.name_mapping[name], "loaded", raises)
                        EXCEPT !.plugin_names = @ \ {name}]
       ELSE /\ ~raises
            /\ name = "TabPlugin"
            /\ pm' = [pm EXCEPT !.pc = "running"]
    /\ UNCHANGED notPm

\* PluginManager.run(hotkey), bound to the hotkey by bind_hotkeys
PluginRun(hotkey, raises) ==
    /\ pm.phase = "pm"
    /\ pm.pc = "running"
    /\ hotkey \in DOMAIN pm.hotkey_mapping
    /\ LET called == CallIfAble(pm, pm.hotkey_mapping[hotkey], "run", raises)
       IN  pm' = [called EXCEPT !.calls = pm.calls,
                                !.ran = IF Len(called.calls) > Len(pm.calls)
                                        THEN called.calls[Len(called.calls)] ELSE NoCall]
    /\ UNCHANGED notPm

\* PluginManager.unloaded is entered
UnloadedBegin ==
    /\ pm.phase = "pm"
    /\ pm.pc = "running"
    /\ pm' = [pm EXCEPT !.pc = "unloading", !.i = 1]
    /\ UNCHANGED notPm

\* one turn of the loop of unloaded() over self.plugins; it returns after
\* the last object
Unloaded(raises) ==
    /\ pm.phase = "pm"
    /\ pm.pc = "unloading"
    /\ IF pm.i <= Len(pm.plugins)
       THEN pm' = [CallIfAble(pm, pm.i, "unloaded", raises) EXCEPT !.i = @ + 1]
       ELSE /\ ~raises
            /\ pm' = [pm EXCEPT !.pc = "off"]
    /\ UNCHANGED notPm

\* the plugin objects the files of the directory give
PluginObjects ==
    {[name |-> name, file |-> file, able |-> able] :
        name \in PluginClasses, file \in {"Tab/File/Open.py", "File/Open.py", "the file"},
        able \in BOOLEAN}

\* the lists of plugin objects load_plugins_from_directory may give (the
\* order is that of Path.glob): one object per file, at most one of them
\* disabled
InstalledPlugins ==
    {plugins \in [1..MaxPlugins -> PluginObjects] :
        /\ \A k \in 1..MaxPlugins : plugins[k].file \in PluginFiles(plugins[k].name)
        /\ \A j \in 1..MaxPlugins : \A k \in 1..MaxPlugins :
            j # k => /\ plugins[j].name = plugins[k].name => plugins[j].file # plugins[k].file
                     /\ plugins[j].able \/ plugins[k].able}

PluginSpecInit ==
    /\ pm \in {PluginManagerInit(plugins) : plugins \in InstalledPlugins}
    /\ rec = <<>>
    /\ file_states = <<>>
    /\ tab = <<>>
    /\ tabs = <<>>
    /\ handles = {}
    /\ err = "none"
    /\ rt = Absent
    /\ pv = Absent
    /\ tv = Absent
    /\ rd = Absent
    /\ bg = Absent
    /\ zm = Absent
    /\ oq = Absent
    /\ pt = Absent
    /\ ow = Absent

PluginNext ==
    \/ LoadedBegin
    \/ \E raises \in BOOLEAN : LoadedOrdered(raises)
    \/ \E name \in PluginClasses : \E raises \in BOOLEAN : LoadedRest(name, raises)
    \/ \E hotkey \in Hotkeys : \E raises \in BOOLEAN : PluginRun(hotkey, raises)
    \/ UnloadedBegin
    \/ \E raises \in BOOLEAN : Unloaded(raises)

SpecPlugins == PluginSpecInit /\ [][PluginNext]_vars


\* the name of the plugin object of the call at position p of pm.calls
CalledName(p) == pm.plugins[pm.calls[p].plugin].name

\* the positions of pm.calls at which loaded was called
LoadedCalls == {p \in 1..Len(pm.calls) : pm.calls[p].method = "loaded"}

\* C22: loaded() calls `loaded` on the plugins named in plugin_loading_order
\* in the order of that list and before every plugin the list does not name;
\* the `loaded` of TabPlugin is called (and has returned or raised) before
\* the `loaded` of every other plugin but ContextMenuPlugin, and is not
\* left out when another plugin is loaded.
C22_LoadedInListOrder ==
    pm.phase = "pm" =>
        /\ \A p \in LoadedCalls : \A q \in LoadedCalls :
              /\ (p < q /\ Listed(CalledName(p)) /\ Listed(CalledName(q))) =>
                     OrderOf(CalledName(p)) < OrderOf(CalledName(q))
              /\ (Listed(CalledName(p)) /\ ~Listed(CalledName(q))) => p < q
              /\ (CalledName(p) = "TabPlugin"
                    /\ CalledName(q) \notin {"TabPlugin", "ContextMenuPlugin"}) => p < q
        /\ ("TabPlugin" \in DOMAIN pm.name_mapping
              /\ pm.plugins[pm.name_mapping["TabPlugin"]].able) =>
               \A q \in LoadedCalls :
                   CalledName(q) # "TabPlugin" =>
                       \E p \in LoadedCalls : p < q /\ CalledName(p) = "TabPlugin"

\* loaded() has returned after it called TabPlugin, OpenPlugin and a plugin
\* the list does not name, found in the directory in another order
C22_Witness ==
    /\ pm.phase = "pm"
    /\ pm.pc = "running"
    /\ pm.plugins[1].name = "ShowPageInfoPlugin"
    /\ pm.plugins[2].name = "OpenPlugin"
    /\ pm.plugins[3].name = "TabPlugin"
    /\ Len(pm.calls) = 3
    /\ \A p \in 1..3 : pm.calls[p].method = "loaded"
    /\ CalledName(1) = "TabPlugin" /\ CalledName(2) = "OpenPlugin"
    /\ CalledName(3) = "ShowPageInfoPlugin"

\* the objects that a call should reach: for loaded, the enabled objects the
\* names stand for; for unloaded, every enabled object
Called(k, method_name) ==
    \E p \in 1..Len(pm.calls) : pm.calls[p].plugin = k /\ pm.calls[p].method = method_name

\* C30: an exception raised by a plugin's loaded, run or unloaded is caught
\* and reported and does not leave the manager, and the plugins after it get
\* their call: when loaded() has returned every enabled plugin a name stands
\* for has had `loaded` called, when unloaded() has returned every enabled
\* plugin has had `unloaded` called.
C30_PluginCallsAreSafe ==
    pm.phase = "pm" =>
        /\ ~pm.escaped
        /\ pm.pc # "aborted"
        /\ \A p \in 1..Len(pm.calls) : pm.calls[p].raised => pm.calls[p].reported
        /\ pm.ran.raised => pm.ran.reported
        /\ pm.pc \in {"running", "unloading", "off"} =>
              \A name \in DOMAIN pm.name_mapping :
                  pm.plugins[pm.name_mapping[name]].able => Called(pm.name_mapping[name], "loaded")
        /\ pm.pc = "off" =>
              \A k \in 1..Len(pm.plugins) : pm.plugins[k].able => Called(k, "unloaded")

\* the first plugin raised in loaded and in unloaded, and the others were
\* called all the same
C30_Witness ==
    /\ pm.phase = "pm"
    /\ pm.pc = "off"
    /\ \A k \in 1..Len(pm.plugins) : pm.plugins[k].able
    /\ Len(pm.calls) = 2 * Len(pm.plugins)
    /\ pm.calls[1].raised /\ pm.calls[1].method = "loaded"
    /\ pm.calls[Len(pm.plugins) + 1].raised /\ pm.calls[Len(pm.plugins) + 1].method = "unloaded"
    /\ Called(3, "loaded") /\ Called(3, "unloaded")


-----------------------------------------------------------------------------
(* The OCR cache and the OCR queue *)

\* C23: a call of perform_ocr_on_page for a page that has a stored result
\* does not invoke the engine and leaves the cache as it is, and a stored
\* result stays in the cache through every step but reocr_current_page.
C23_CachedPageNotRecognizedAgain ==
    [][/\ \A outcome \in OcrOutcomes :
             (OcrWorker(outcome) /\ Head(bg.ocr_queue)[2] \in bg.ocr_cache) =>
                 /\ bg'.performed = "cached"
                 /\ bg'.ocr_cache = bg.ocr_cache
       /\ (bg.phase = "threads"
             /\ ~\E page_no \in OcrPages : \E outcome \in OcrOutcomes :
                    ReOcrCurrentPage(page_no, outcome)) =>
              bg.ocr_cache \subseteq bg'.ocr_cache]_vars

\* the worker has met a task for a page whose result the engine had stored
\* before, and has not invoked the engine
C23_Witness ==
    /\ bg.phase = "threads"
    /\ bg.last.thread = "ocr"
    /\ ~bg.last.applies
    /\ bg.performed = "cached"
    /\ bg.ocr_cache = {0}
    /\ bg.ocr_queue = <<>>
    /\ bg.auto_ocr_enabled


\* the pages and the priorities add_to_ocr_queue is called with (0 the
\* current page, 1 a visible page, 2 a selectable page)
QueuePages == {0, 1, 2}

Priorities == {0, 1, 2}

\* the plugin after __init__: an empty queue, no worker thread
\* (task and before record the last call: its task and the queue it found)
QueueInit == [phase |-> "queue", ocr_queue |-> <<>>, task |-> <<>>, before |-> <<>>]

\* a call of add_to_ocr_queue (from trigger_visible_pages_ocr or
\* modified_get_text) while the worker thread does not run
AddTask(page_no, priority) ==
    /\ oq.phase = "queue"
    /\ oq' = [oq EXCEPT !.ocr_queue = AddToOcrQueue(@, page_no, priority),
                        !.task = <<priority, page_no>>, !.before = oq.ocr_queue]
    /\ UNCHANGED notOq

QueueSpecInit ==
    /\ oq = QueueInit
    /\ rec = <<>>
    /\ file_states = <<>>
    /\ tab = <<>>
    /\ tabs = <<>>
    /\ handles = {}
    /\ err = "none"
    /\ rt = Absent
    /\ pv = Absent
    /\ tv = Absent
    /\ rd = Absent
    /\ bg = Absent
    /\ zm = Absent
    /\ pm = Absent
    /\ pt = Absent
    /\ ow = Absent

QueueNext == \E page_no \in QueuePages : \E priority \in Priorities : AddTask(page_no, priority)

SpecQueue == QueueSpecInit /\ [][QueueNext]_vars

\* the sequence without its items of the page
WithoutPage(queue, page_no) ==
    SelectSeq(queue, LAMBDA task : task[2] # page_no)

\* C24: after any calls of add_to_ocr_queue the queue is sorted by
\* non-decreasing priority number and has at most one task per page; a call
\* for a page that is queued with the same or a smaller priority number
\* leaves the queue as it is; any other call puts the task behind the tasks
\* of the same or a smaller priority number and before those of a greater
\* one, removes the page's former task and keeps the other tasks in their
\* order.
C24_QueueSortedUniqueFifo ==
    oq.phase = "queue" =>
        LET queue == oq.ocr_queue
            old   == IF oq.task = <<>> THEN {}
                     ELSE {i \in 1..Len(oq.before) : oq.before[i][2] = oq.task[2]}
        IN  /\ \A i \in 1..Len(queue) : \A j \in 1..Len(queue) :
                  i < j => /\ queue[i][1] <= queue[j][1]
                           /\ queue[i][2] # queue[j][2]
            /\ IF oq.task = <<>>
               THEN queue = <<>>
               ELSE IF \E i \in old : oq.before[i][1] <= oq.task[1]
               THEN queue = oq.before
               ELSE /\ WithoutPage(queue, oq.task[2]) = WithoutPage(oq.before, oq.task[2])
                    /\ \E k \in 1..Len(queue) :
                          /\ queue[k] = oq.task
                          /\ \A i \in 1..(k - 1) : queue[i][1] <= oq.task[1]
                          /\ \A i \in (k + 1)..Len(queue) : queue[i][1] > oq.task[1]

\* page 2, queued last with priority 2, has been added again with priority
\* 1 and stands behind page 0 of priority 1 and before page 1 of priority 2
C24_Witness ==
    /\ oq.phase = "queue"
    /\ oq.before = << <<1, 0>>, <<2, 1>>, <<2, 2>> >>
    /\ oq.task = <<1, 2>>
    /\ oq.ocr_queue = << <<1, 0>>, <<1, 2>>, <<2, 1>> >>


(***************************************************************************)
(* Page turning: PageDownPlugin, PageUpPlugin and PageNoPlugin on the      *)
(* current tab.                                                            *)
(***************************************************************************)

\* the largest number of pages of the open document
MaxPages == 6

\* PageNoPlugin.update_page_number: the text of the page label
UpdatePageNumber(self) ==
    [self EXCEPT !.page_label = IF self.total_pages > 0
                                THEN <<self.page_no + 1, self.total_pages>>
                                ELSE <<0, 0>>]

\* PageDownPlugin.update_page_turning_button with a current tab
UpdatePageTurningButton(self) ==
    [self EXCEPT !.prev_button = IF self.page_no <= 0 THEN "disabled" ELSE "normal",
                 !.next_button = IF self.page_no >= self.total_pages - 1
                                 THEN "disabled" ELSE "normal"]

\* OpenPlugin.run has made the tab of a document of n pages, at
\* the page of its state dict, and refreshed the label and the buttons
PagesInit(n, page_no) ==
    UpdatePageTurningButton(UpdatePageNumber(
        [phase |-> "pages", total_pages |-> n, page_no |-> page_no,
         page_label |-> <<0, 0>>, prev_button |-> "disabled", next_button |-> "disabled",
         err |-> "none"]))

\* PageDownPlugin.run: below the last page the page_no setter (with
\* update_view_region and render), then current_tab.show_page(), which Tab
\* does not define: the AttributeError leaves run before update_page_number
\* and update_page_turning_button; on the last page a message is printed
PageDownRun ==
    /\ pt.phase = "pages"
    /\ pt' = IF pt.page_no < pt.total_pages - 1
             THEN [pt EXCEPT !.page_no = @ + 1, !.err = "AttributeError"]
             ELSE [pt EXCEPT !.err = "none"]
    /\ UNCHANGED notPt

\* PageUpPlugin.run: above the first page the page_no setter, then
\* current_tab.render_page(), which Tab does not define
PageUpRun ==
    /\ pt.phase = "pages"
    /\ pt' = IF pt.page_no > 0
             THEN [pt EXCEPT !.page_no = @ - 1, !.err = "AttributeError"]
             ELSE [pt EXCEPT !.err = "none"]
    /\ UNCHANGED notPt

\* <<NotebookTabChanged>> with this tab selected (the user comes back from
\* another tab): the handlers bound by PageNoPlugin and PageDownPlugin
NotebookTabChanged ==
    /\ pt.phase = "pages"
    /\ pt' = [UpdatePageTurningButton(UpdatePageNumber(pt)) EXCEPT !.err = "none"]
    /\ UNCHANGED notPt

PagesSpecInit ==
    /\ \E n \in 1..MaxPages : \E page_no \in 0..(n - 1) : pt = PagesInit(n, page_no)
    /\ rec = <<>>
    /\ file_states = <<>>
    /\ tab = <<>>
    /\ tabs = <<>>
    /\ handles = {}
    /\ err = "none"
    /\ rt = Absent
    /\ pv = Absent
    /\ tv = Absent
    /\ rd = Absent
    /\ bg = Absent
    /\ zm = Absent
    /\ pm = Absent
    /\ oq = Absent
    /\ ow = Absent

PagesNext == PageDownRun \/ PageUpRun \/ NotebookTabChanged

SpecPages == PagesSpecInit /\ [][PagesNext]_vars

\* the label and the buttons show the page of the tab
Refreshed(self) == self = UpdatePageTurningButton(UpdatePageNumber(self))

\* C25: PageDown below the last page adds exactly 1 to page_no and PageUp
\* above the first page takes exactly 1 off, and the label then reads
\* page_no + 1 / total_pages and the buttons are set for the new page;
\* PageDown on the last page and PageUp on the first leave page_no as it is.
C25_PageTurningStepsAndRefreshes ==
    [][/\ PageDownRun =>
            IF pt.page_no < pt.total_pages - 1
            THEN pt'.page_no = pt.page_no + 1 /\ Refreshed(pt')
            ELSE pt'.page_no = pt.page_no
       /\ PageUpRun =>
            IF pt.page_no > 0
            THEN pt'.page_no = pt.page_no - 1 /\ Refreshed(pt')
            ELSE pt'.page_no = pt.page_no]_vars


-----------------------------------------------------------------------------
(* The debounce timer of PDFViewer.schedule_render *)

\* C26: at most one deferred render callback is armed in every state, and a
\* request (a scrollbar move or a <Configure>) that arrives while a callback
\* is pending cancels it and arms a new one: afterwards the only armed
\* callback is the one of this request.
C26_AtMostOneArmed ==
    /\ [](pv.phase = "viewer" => Cardinality(pv.timers) <= 1)
    /\ [][(/\ pv.phase = "viewer"
           /\ pv.timers # {}
           /\ \/ \E axis \in {"x", "y"} : \E origin \in ScrollbarInputs : ScrollbarMove(axis, origin)
              \/ \E window \in ViewerWindows : Configure(window)) =>
              /\ pv'.timers = {pv'.render_after_id}
              /\ pv'.render_after_id \notin pv.timers]_vars

\* no pass has run yet: the callback armed by __init__ (id 1) has been
\* cancelled by a request that moved the view, whose callback (id 2) is the
\* one armed
C26_Witness ==
    /\ pv.phase = "viewer"
    /\ pv.raster = "none"
    /\ pv.requested
    /\ pv.yo > 0
    /\ pv.render_after_id = 2
    /\ pv.timers = {2}


\* the PDFViewer under Tk's event loop: a callback that stays armed is run
\* when its delay has passed
SpecViewerFair ==
    /\ ViewerInit
    /\ [][ViewerNext]_vars
    /\ WF_vars(\E id \in 1..3 : \E ok \in BOOLEAN : Fire(id, ok))

\* an event from the user: a scrollbar move, a resize, a turn of the wheel
ViewerInput ==
    \/ \E axis \in {"x", "y"} : \E origin \in ScrollbarInputs : ScrollbarMove(axis, origin)
    \/ \E window \in ViewerWindows : Configure(window)
    \/ \E units \in {-1, 1} : MouseWheel(units)

\* no callback is armed and no request waits for its pass
ViewerIdle == pv.phase = "viewer" /\ pv.timers = {} /\ ~pv.requested

\* C27: after a render request, unless events keep arriving for ever, the
\* scheduler comes to idle: the callback has fired, the pass has run and no
\* callback is armed.
C27_RequestLeadsToIdle ==
    \/ (pv.phase = "viewer" /\ pv.requested) ~> ViewerIdle
    \/ []<><<ViewerInput>>_vars


-----------------------------------------------------------------------------
(* The unchanged-region check of PDFViewer.render_visible_area *)

\* twice the centre of a rectangle
Centre2(rect) == <<rect.x0 + rect.x1, rect.y0 + rect.y1>>

\* the centres, in pixels, are no more than render_threshold apart on
\* each axis (a rectangle is in 1/72 pixel)
WithinThreshold(a, b) ==
    /\ Abs(Centre2(a)[1] - Centre2(b)[1]) <= 2 * PointsPerInch * render_threshold
    /\ Abs(Centre2(a)[2] - Centre2(b)[2]) <= 2 * PointsPerInch * render_threshold

\* C28: a pass is skipped exactly when a region has been rendered and the
\* centre of the requested region is within the threshold of that region's
\* centre on both axes; a skipped pass leaves the last rendered region as it
\* is, a pass that draws makes the requested region the last rendered one;
\* so after every pass that drew or was skipped the requested region's
\* centre is within the threshold of the last rendered region's.
C28_SkipAgainstLastRendered ==
    [][\A id \in 1..3 : \A ok \in BOOLEAN :
          Fire(id, ok) =>
              LET requested == CalculateVisibleRect(pv')
              IN  /\ pv'.raster = "skipped" <=>
                         /\ pv.rendered_region # NoRect
                         /\ WithinThreshold(requested, pv.rendered_region)
                  /\ pv'.raster = "skipped" => pv'.rendered_region = pv.rendered_region
                  /\ pv'.raster = "drawn" => pv'.rendered_region = requested
                  /\ pv'.raster \in {"drawn", "skipped"} =>
                         WithinThreshold(requested, pv'.rendered_region)]_vars

\* the view has been moved by 15 pixels from the origin, where the page
\* was drawn: the centre has moved by 7.5 and the pass was skipped, the last
\* rendered region is still the one drawn at the origin
C28_Witness ==
    /\ pv.phase = "viewer"
    /\ pv.raster = "skipped"
    /\ ~pv.again
    /\ pv.yo = 15
    /\ pv.image
    /\ pv.rendered_region = pv.clip
    /\ pv.rendered_region.y0 = 0
    /\ pv.rendered_region.y1 = PointsPerInch * (pv.h + render_margin)


-----------------------------------------------------------------------------
(* scroll_pos and the view of a Tab's canvas *)

\* the coordinate pos of scroll_pos is the page's length times the fraction
\* origin / region at which the view starts, to within one canvas pixel
AtViewStart(pos, length, origin, region) ==
    Abs(pos.n * region - length * origin * pos.d) <= length * pos.d

-----------------------------------------------------------------------------
(* The records of file_states *)

\* the indices of the records of file_states whose file_path is path
RecordsOf(path) == {i \in 1..Len(file_states) : Matches(rec[file_states[i]], path)}

\* C31: file_states never holds two records with the same file_path, after
\* any tab creations (repeated and simultaneous ones on one path included)
\* and tab closes, from a persisted list without duplicates.
C31_FilePathUnique ==
    \A path \in Paths : Cardinality(RecordsOf(path)) <= 1

\* two tabs are open on "a", which had no record when the first was made:
\* there is one record of "a", opened twice
C31_Witness ==
    /\ Len(tabs) = 2
    /\ \A i \in 1..2 : tab[tabs[i]].doc = "a"
    /\ Cardinality(RecordsOf("a")) = 1
    /\ \A i \in RecordsOf("a") : rec[file_states[i]].open_count = 2


\* C32: an open that fails, of a path that had no record, leaves file_states
\* as it was: no record of that path is added.
C32_FailedOpenAddsNoRecord ==
    [][\A path \in Paths :
          (/\ CreateTab(path)
           /\ ~Known(path)
           /\ Len(tab') = Len(tab) + 1
           /\ tab'[Len(tab')].doc = NoDoc) =>
              /\ file_states' = file_states
              /\ RecordsOf(path)' = {}]_vars


\* C33: in every state of the PDFViewer the last rendered region is the
\* region of the image that is on the canvas, and None when nothing has
\* been drawn, also after a pass whose get_pixmap raised: no region is
\* kept while the canvas has no image, a pass that draws makes the region
\* it has drawn the last rendered one, and a pass that does not draw (the
\* canvas stays as it is) leaves the last rendered region as it is.
C33_RenderedRegionIsOnCanvas ==
    /\ []((pv.phase = "viewer" /\ ~pv.image) => pv.rendered_region = NoRect)
    /\ [][\A id \in 1..3 : \A ok \in BOOLEAN :
             Fire(id, ok) =>
                 IF pv'.raster = "drawn"
                 THEN pv'.rendered_region = pv'.clip
                 ELSE pv'.rendered_region = pv.rendered_region]_vars


-----------------------------------------------------------------------------
(* Plugin objects and the mappings that stand for them *)

\* the calls of `loaded` made on the plugin object k
LoadedCallsOf(k) == {p \in LoadedCalls : pm.calls[p].plugin = k}

\* C34: when loaded() has returned, `loaded` has been called exactly once
\* on every enabled plugin object of PluginManager.plugins; and a plugin
\* object whose `run` is called through hotkey_mapping has had `loaded`
\* called before, also when two plugin classes have the same name.
C34_EveryObjectLoadedOnce ==
    pm.phase = "pm" =>
        /\ pm.pc \in {"running", "unloading", "off"} =>
              \A k \in 1..Len(pm.plugins) :
                  pm.plugins[k].able => Cardinality(LoadedCallsOf(k)) = 1
        /\ pm.ran.method = "run" => LoadedCallsOf(pm.ran.plugin) # {}


-----------------------------------------------------------------------------
(* plugins/OCR: the worker thread beside the UI thread.  In ow, ocr_thread  *)
(* is the place of the worker in ocr_worker ("none" before the first start, *)
(* "dead" when the thread has ended), ui the place of the UI thread in its  *)
(* handler, i the index its loop is at, task the task it adds and popped    *)
(* the task its pop(i) has removed.  Both threads work on the same list     *)
(* without a lock; a step is one access to the list or to a flag.           *)

\* the longest queue an add starts on
MaxQueue == 3

\* OCRPlugin.__init__: automatic OCR off, no thread, an empty queue
WorkerInit ==
    [phase |-> "worker", auto_ocr_enabled |-> FALSE, stop_ocr_thread |-> FALSE,
     ocr_thread |-> "none", ocr_queue |-> <<>>,
     ui |-> "idle", i |-> 0, task |-> <<>>, popped |-> <<>>,
     raised |-> FALSE, worker_raised |-> FALSE]

\* Thread.is_alive of self.ocr_thread
IsAlive(self) == self.ocr_thread \in {"test", "nonempty", "busy"}

\* start_ocr_thread: a thread is made only if there is none alive, and only
\* then stop_ocr_thread is set to False
StartOcrThread(self) ==
    IF self.ocr_thread = "none" \/ ~IsAlive(self)
    THEN [self EXCEPT !.stop_ocr_thread = FALSE, !.ocr_thread = "test"]
    ELSE self

\* the first lines of add_to_ocr_queue: the task is made and the search loop
\* starts at the head of the list
AddToOcrQueueBegin(self, page_no, priority) ==
    [self EXCEPT !.ui = "search", !.i = 1, !.task = <<priority, page_no>>,
                 !.popped = <<>>, !.raised = FALSE]

\* toggle_auto_ocr on the UI thread: the flag is negated; then
\* start_ocr_thread and trigger_visible_pages_ocr (the current page with
\* priority 0 first), or stop_ocr_worker, which sets stop_ocr_thread and
\* joins the thread for at most 2 s
ToggleAutoOcrBeside(page_no) ==
    /\ ow.phase = "worker"
    /\ ow.ui = "idle"
    /\ ow' = IF ~ow.auto_ocr_enabled
             THEN AddToOcrQueueBegin(StartOcrThread([ow EXCEPT !.auto_ocr_enabled = TRUE]),
                                     page_no, 0)
             ELSE [ow EXCEPT !.auto_ocr_enabled = FALSE, !.stop_ocr_thread = TRUE,
                             !.ui = IF ow.ocr_thread = "none" THEN "idle" ELSE "join"]
    /\ UNCHANGED notOw

\* join(timeout=2) returns: the thread has ended, or the 2 s have passed
\* with the worker still inside perform_ocr_on_page
JoinReturns ==
    /\ ow.phase = "worker"
    /\ ow.ui = "join"
    /\ ow.ocr_thread \in {"dead", "busy"}
    /\ ow' = [ow EXCEPT !.ui = "idle"]
    /\ UNCHANGED notOw

\* a call of add_to_ocr_queue while automatic OCR is on: the other pages of
\* trigger_visible_pages_ocr (priority 1 and 2) and modified_get_text
\* (priority 1)
AddBegin(page_no, priority) ==
    /\ ow.phase = "worker"
    /\ ow.ui = "idle"
    /\ ow.auto_ocr_enabled
    /\ Len(ow.ocr_queue) < MaxQueue
    /\ ow' = AddToOcrQueueBegin(ow, page_no, priority)
    /\ UNCHANGED notOw

\* one turn of the first loop of add_to_ocr_queue: the list iterator gives
\* the element at its index, or ends when the index is beyond the list; a
\* task of the page ends the search (return, or on to pop(i))
AddSearch ==
    /\ ow.phase = "worker"
    /\ ow.ui = "search"
    /\ ow' = IF ow.i > Len(ow.ocr_queue)
             THEN [ow EXCEPT !.ui = "scan", !.i = 1]
             ELSE IF ow.ocr_queue[ow.i][2] # ow.task[2]
             THEN [ow EXCEPT !.i = @ + 1]
             ELSE IF ow.task[1] < ow.ocr_queue[ow.i][1]
             THEN [ow EXCEPT !.ui = "pop"]
             ELSE [ow EXCEPT !.ui = "idle"]
    /\ UNCHANGED notOw

\* self.ocr_queue.pop(i) and break: IndexError when the list has no index i
\* any more
AddPop ==
    /\ ow.phase = "worker"
    /\ ow.ui = "pop"
    /\ ow' = IF ow.i > Len(ow.ocr_queue)
             THEN [ow EXCEPT !.ui = "idle", !.raised = TRUE]
             ELSE [ow EXCEPT !.ocr_queue = Without(@, ow.i), !.popped = ow.ocr_queue[ow.i],
                             !.ui = "scan", !.i = 1]
    /\ UNCHANGED notOw

\* one turn of the second loop: the first task of a greater priority number
\* ends it; when the iterator ends the task is appended
AddScan ==
    /\ ow.phase = "worker"
    /\ ow.ui = "scan"
    /\ ow' = IF ow.i > Len(ow.ocr_queue)
             THEN [ow EXCEPT !.ocr_queue = Append(@, ow.task), !.ui = "idle"]
             ELSE IF ow.task[1] < ow.ocr_queue[ow.i][1]
             THEN [ow EXCEPT !.ui = "insert"]
             ELSE [ow EXCEPT !.i = @ + 1]
    /\ UNCHANGED notOw

\* self.ocr_queue.insert(i, task): list.insert puts the task at the end
\* when i is beyond the list
AddInsert ==
    /\ ow.phase = "worker"
    /\ ow.ui = "insert"
    /\ ow' = [ow EXCEPT !.ocr_queue = InsertAt(@, Min(ow.i, Len(@) + 1), ow.task),
                        !.ui = "idle"]
    /\ UNCHANGED notOw

\* ocr_worker at `while not self.stop_ocr_thread` and `if self.ocr_queue`:
\* the thread ends when the flag is set; with an empty queue it sleeps and
\* comes back
WorkerTest ==
    /\ ow.phase = "worker"
    /\ ow.ocr_thread = "test"
    /\ ow.stop_ocr_thread \/ ow.ocr_queue # <<>>
    /\ ow' = [ow EXCEPT !.ocr_thread = IF ow.stop_ocr_thread THEN "dead" ELSE "nonempty"]
    /\ UNCHANGED notOw

\* self.ocr_queue.pop(0), then perform_ocr_on_page is entered; pop raises
\* IndexError on a list that is empty by now, which ends the thread
WorkerPop ==
    /\ ow.phase = "worker"
    /\ ow.ocr_thread = "nonempty"
    /\ ow' = IF ow.ocr_queue = <<>>
             THEN [ow EXCEPT !.ocr_thread = "dead", !.worker_raised = TRUE]
             ELSE [ow EXCEPT !.ocr_queue = Tail(@), !.ocr_thread = "busy"]
    /\ UNCHANGED notOw

\* perform_ocr_on_page returns (it catches what the recognition raises)
WorkerDone ==
    /\ ow.phase = "worker"
    /\ ow.ocr_thread = "busy"
    /\ ow' = [ow EXCEPT !.ocr_thread = "test"]
    /\ UNCHANGED notOw

WorkerSpecInit ==
    /\ ow = WorkerInit
    /\ oq = Absent
    /\ pt = Absent
    /\ bg = Absent
    /\ zm = Absent
    /\ pm = Absent
    /\ rec = <<>>
    /\ file_states = <<>>
    /\ tab = <<>>
    /\ tabs = <<>>
    /\ handles = {}
    /\ err = "none"
    /\ rt = Absent
    /\ pv = Absent
    /\ tv = Absent
    /\ rd = Absent

WorkerNext ==
    \/ \E page_no \in OcrPages : ToggleAutoOcrBeside(page_no)
    \/ JoinReturns
    \/ \E page_no \in OcrPages : \E priority \in {1, 2} : AddBegin(page_no, priority)
    \/ AddSearch
    \/ AddPop
    \/ AddScan
    \/ AddInsert
    \/ WorkerTest
    \/ WorkerPop
    \/ WorkerDone

SpecWorker == WorkerSpecInit /\ [][WorkerNext]_vars

\* C35: whenever automatic OCR is on, the worker thread is alive and not
\* flagged to stop, after any sequence of toggles, also when the worker was
\* busy with a page while it was toggled off and on again.
C35_EnabledMeansWorkerRuns ==
    (ow.phase = "worker" /\ ow.auto_ocr_enabled) =>
        /\ IsAlive(ow)
        /\ ~ow.stop_ocr_thread

\* C36: under every interleaving of add_to_ocr_queue with the worker's
\* pop(0) the add does not raise, the task its pop(i) removes is a task of
\* the page it adds, and the queue has no page twice and is sorted by
\* priority.
C36_QueueSafeUnderInterleaving ==
    ow.phase = "worker" =>
        /\ ~ow.raised
        /\ ow.popped # <<>> => ow.popped[2] = ow.task[2]
        /\ \A j \in 1..Len(ow.ocr_queue) : \A k \in (j + 1)..Len(ow.ocr_queue) :
              /\ ow.ocr_queue[j][2] # ow.ocr_queue[k][2]
              /\ ow.ocr_queue[j][1] <= ow.ocr_queue[k][1]


-----------------------------------------------------------------------------
(* plugins/AI/Summary: the completion of generate_summary *)

\* C37: for one generate_summary, on_complete runs once: when it runs the
\* progress window of that invocation is still shown (it has not been
\* destroyed by an earlier run), whichever of the API thread's end and the
\* 60 s timeout comes first and also when the other comes later.
C37_OnCompleteRunsOnce ==
    [][OnComplete => bg.progress_window = "shown"]_vars

====
